---- MODULE Spec2Model ----
(***************************************************************************)
(* Verification model of the binary CDR decoding engine                    *)
(* (itmaxdev/gatekeeper-nifi-python, src/scripts).                         *)
(*                                                                         *)
(*   SpecMsc   decode_msc_file            (asn1/msc_compiler.py)           *)
(*   SpecConv  convert_indefinite_to_definite_length (asn1/sgsn_compiler)  *)
(*   SpecSgsn  decode_raw_sgsn + DirectBinaryParser.scan_file              *)
(*                                                                         *)
(* Byte strings are sequences of 0..255.  Python indices are 0-based; the  *)
(* helpers At and Slice keep Python's indexing and slicing conventions.    *)
(***************************************************************************)
EXTENDS Integers, Sequences, FiniteSets, TLC

VARIABLES
    raw_data,                  \* the input buffer of the function under study
    msc_pc,                    \* decode_msc_file: position in the function
    remaining_data,            \* decode_msc_file: local remaining_data
    all_records,               \* decode_msc_file: local all_records (may be unbound)
    record_count,              \* decode_msc_file: local record_count
    skipped_group_call_count,  \* decode_msc_file: local skipped_group_call_count
    last_error_type,           \* decode_msc_file: local last_error_type
    msc_result,                \* decode_msc_file: what the call produced
    wrong_type_reported,       \* decode_msc_file: lines 163-168 printed their warning
    msc_path,                  \* history: "whole" (lines 76-80) or "stream" (lines 81-168)
    iter_log,                  \* history: one entry per loop iteration of the stream path
    conv_pc,                   \* convert_indefinite_to_definite_length: "ready" or "done"
    conv_result,               \* convert_indefinite_to_definite_length: what the call produced
    conv_again,                \* the same function applied to the bytes it returned
    sg_pc,                     \* decode_raw_sgsn: position in the function
    missing_data,              \* decode_raw_sgsn: local missing_data (the scanner's result)
    indices,                   \* decode_raw_sgsn: local indices
    raw_records,               \* decode_raw_sgsn: local raw_records
    sg_offset,                 \* decode_raw_sgsn: local offset
    records,                   \* decode_raw_sgsn: local records
    printed,                   \* decode_raw_sgsn: the records written to stdout
    decoded_log,               \* history: prev_offset and mapped_record before the merges
    sg_failed,                 \* history: the element the schema decoder failed on, or 0
    given,                     \* a codec call: what raw_data was built from
    fn_called,                 \* a codec call: the function applied to raw_data
    fn_result                  \* a codec call: what the function produced

mscVars == <<msc_pc, remaining_data, all_records, record_count,
             skipped_group_call_count, last_error_type, msc_result, msc_path,
             iter_log, wrong_type_reported>>

convVars == <<conv_pc, conv_result, conv_again>>

sgsnVars == <<sg_pc, missing_data, indices, raw_records, sg_offset, records,
              printed, decoded_log, sg_failed>>

fnVars == <<given, fn_called, fn_result>>

vars == <<raw_data, mscVars, convVars, sgsnVars, fnVars>>

nonMscVars  == <<convVars, sgsnVars, fnVars>>
nonConvVars == <<mscVars, sgsnVars, fnVars>>
nonSgsnVars == <<mscVars, convVars, fnVars>>
nonFnVars   == <<mscVars, convVars, sgsnVars>>

(***************************************************************************)
(* Python helpers                                                          *)
(***************************************************************************)
Min(a, b) == IF a <= b THEN a ELSE b
Max(a, b) == IF a >= b THEN a ELSE b

\* data[i] with a 0-based index (the caller guarantees 0 <= i < len(data))
At(data, i) == data[i + 1]

\* data[a:b] for 0 <= a: Python clamps both ends to len(data)
Slice(data, a, b) ==
    LET lo == Min(Max(a, 0), Len(data))
        hi == Min(Max(b, 0), Len(data))
    IN  IF lo >= hi THEN <<>> ELSE SubSeq(data, lo + 1, hi)

\* data[a:]
SliceFrom(data, a) == Slice(data, a, Len(data))

\* the value of the big-endian bytes bs, none of whose leading bytes is zero
RECURSIVE BigEndian(_)
BigEndian(bs) ==
    IF bs = <<>> THEN 0
    ELSE BigEndian(SubSeq(bs, 1, Len(bs) - 1)) * 256 + bs[Len(bs)]

\* int.from_bytes(bs, 'big'): leading zero bytes do not count
IntFromBytes(bs) ==
    LET nonzero == { i \in DOMAIN bs : bs[i] # 0 }
    IN  IF nonzero = {} THEN 0
        ELSE BigEndian(SubSeq(bs, CHOOSE i \in nonzero : \A j \in nonzero : i <= j,
                              Len(bs)))

\* concatenation of the byte strings ss[lo], ..., ss[hi]
RECURSIVE FlattenRange(_, _, _)
FlattenRange(ss, lo, hi) ==
    IF lo > hi THEN <<>>
    ELSE IF lo = hi THEN ss[lo]
    ELSE LET mid == (lo + hi) \div 2
         IN  FlattenRange(ss, lo, mid) \o FlattenRange(ss, mid + 1, hi)

\* concatenation of a sequence of byte strings
Flatten(ss) == FlattenRange(ss, 1, Len(ss))

\* the element of a one-element set; Only({ e : x \in {v} }) is e for x = v,
\* with v evaluated once however often e reads x
Only(S) == CHOOSE r \in S : TRUE

\* all sequences over S of length 0..n
SeqsUpTo(S, n) == UNION { [1..k -> S] : k \in 0..n }

(***************************************************************************)
(* asn1/msc_compiler.py                                                    *)
(***************************************************************************)

\* A variant that returns the length of the content, without tag and length octet.
GetBerTlvLengthContentOnly(data) ==
    IF Len(data) < 2 THEN [ok |-> FALSE, len |-> 0]
    ELSE LET length_octet == At(data, 1) IN
         IF length_octet < 128 THEN [ok |-> TRUE, len |-> length_octet]
         ELSE LET num_length_octets == length_octet % 128 IN
              IF num_length_octets = 0 THEN [ok |-> FALSE, len |-> 0]
              ELSE IF Len(data) < 2 + num_length_octets THEN [ok |-> FALSE, len |-> 0]
              ELSE [ok |-> TRUE,
                    len |-> IntFromBytes(Slice(data, 2, 2 + num_length_octets))]

\* get_ber_tlv_length: ok = FALSE stands for the ValueError it raises
GetBerTlvLength(data) ==
    IF Len(data) < 2 THEN [ok |-> FALSE, len |-> 0]
    ELSE LET length_octet == At(data, 1) IN
         IF length_octet < 128 THEN [ok |-> TRUE, len |-> 2 + length_octet]
         ELSE LET num_length_octets == length_octet % 128 IN
              IF num_length_octets = 0 THEN [ok |-> FALSE, len |-> 0]
              ELSE IF Len(data) < 2 + num_length_octets THEN [ok |-> FALSE, len |-> 0]
              ELSE [ok |-> TRUE,
                    len |-> 2 + num_length_octets
                            + IntFromBytes(Slice(data, 2, 2 + num_length_octets))]

\* Tags the stand-in schema decoder tells apart (first byte of a record).
TagDecodes      == 160   \* 0xA0: the record decodes
TagGroupImsi    == 161   \* 0xA1: error text names groupCallRecord and subscriberIMSI
TagGroupBill    == 162   \* 0xA2: error text names groupCallRecord only
TagOtherError   == 163   \* 0xA3: another decoding error

\* msc_compiler.decode("CallEventRecord", record_bytes): the external schema
\* decoder.  A function of the bytes it is given: the outcome class is read off
\* the record's tag, and a record cut short by the end of the buffer never decodes.
MscSchemaDecode(record_bytes) ==
    LET tag == At(record_bytes, 0)
        r   == GetBerTlvLength(record_bytes)
        complete == r.ok /\ r.len = Len(record_bytes)
    IN  IF tag = TagGroupImsi THEN "groupCallRecord.subscriberIMSI"
        ELSE IF tag = TagGroupBill THEN "groupCallRecord"
        ELSE IF tag = TagDecodes /\ complete THEN "ok"
        ELSE "other"

\* the tree the decoder returns for a record
Decoded(record_bytes) == [rec |-> record_bytes]

\* "groupCallRecord" in error_msg
IsGroupCallError(outcome) ==
    outcome \in {"groupCallRecord.subscriberIMSI", "groupCallRecord"}

\* current_error_type = "IMSI" if "subscriberIMSI" in error_msg else "subBillType"
CurrentErrorType(outcome) ==
    IF outcome = "groupCallRecord.subscriberIMSI" THEN "IMSI" ELSE "subBillType"

\* A local that no assignment has reached yet (Python: UnboundLocalError on use).
Unbound == [bound |-> FALSE, items |-> <<>>]
Bound(items) == [bound |-> TRUE, items |-> items]

\* A variant in which all_records is a list from the start of the stream path.
AllRecordsAppendInitialised(ar, rec) ==
    [raised |-> FALSE, val |-> Bound(Append(ar.items, rec))]

\* all_records.append(decoded_record): raises UnboundLocalError while all_records
\* is unbound
AllRecordsAppend(ar, rec) ==
    IF ar.bound THEN [raised |-> FALSE, val |-> Bound(Append(ar.items, rec))]
    ELSE [raised |-> TRUE, val |-> ar]

NoResult == [kind |-> "none", value |-> <<>>]

\* values of the variables a specification does not use
MscIdle ==
    /\ msc_pc = "idle"
    /\ remaining_data = <<>>
    /\ all_records = [bound |-> FALSE, items |-> <<>>]
    /\ record_count = 0
    /\ skipped_group_call_count = 0
    /\ last_error_type = "None"
    /\ msc_result = NoResult
    /\ msc_path = "none"
    /\ iter_log = <<>>
    /\ wrong_type_reported = FALSE

ConvIdle ==
    /\ conv_pc = "idle"
    /\ conv_result = [exc |-> "none", out |-> <<>>]
    /\ conv_again = [exc |-> "none", out |-> <<>>]

SgsnIdle ==
    /\ sg_pc = "idle"
    /\ missing_data = <<>>
    /\ indices = <<>>
    /\ raw_records = <<>>
    /\ sg_offset = 0
    /\ records = <<>>
    /\ printed = <<>>
    /\ decoded_log = <<>>
    /\ sg_failed = 0

FnIdle ==
    /\ given = <<>>
    /\ fn_called = "idle"
    /\ fn_result = <<>>

\* Input streams: up to MaxElems well-formed elements followed by one tail.
MaxElems == 5

MscElements ==
    { <<TagDecodes, 1, 7>>,          \* short form, one content byte
      <<TagGroupImsi, 0>>,           \* short form, empty
      <<TagGroupBill, 129, 1, 4>>,   \* long form 0x81 0x01
      <<TagOtherError, 0>> }

MscTails ==
    { <<>>,
      <<TagDecodes>>,                \* fewer than 2 bytes remain
      <<TagDecodes, 128>>,           \* indefinite-form length octet
      <<TagDecodes, 130, 1>>,        \* truncated long-form length octets
      <<TagDecodes, 3, 7>> }         \* length claims more bytes than remain

MscInputs ==
    { Flatten(es) \o t : es \in SeqsUpTo(MscElements, MaxElems), t \in MscTails }

InitMsc ==
    /\ raw_data \in MscInputs
    /\ msc_pc = "start"
    /\ remaining_data = <<>>
    /\ all_records = Unbound
    /\ record_count = 0
    /\ skipped_group_call_count = 0
    /\ last_error_type = "None"
    /\ msc_result = NoResult
    /\ msc_path = "none"
    /\ iter_log = <<>>
    /\ wrong_type_reported = FALSE
    /\ ConvIdle
    /\ SgsnIdle
    /\ FnIdle

\* lines 76-80: the whole file decodes as one CallEventDataFile
MscWholeFileDecoded ==
    /\ msc_pc = "start"
    /\ \E recs \in { <<>>, <<Decoded(raw_data)>> } :
           all_records' = Bound(recs)
    /\ msc_pc' = "final"
    /\ msc_path' = "whole"
    /\ UNCHANGED nonMscVars
    /\ UNCHANGED <<raw_data, remaining_data, record_count,
                   skipped_group_call_count, last_error_type, msc_result, iter_log,
                   wrong_type_reported>>

\* lines 81-88: the whole-file decode raised; enter the record-stream path
MscEnterStream ==
    /\ msc_pc = "start"
    /\ msc_pc' = "loop"
    /\ remaining_data' = raw_data
    /\ record_count' = 0
    /\ skipped_group_call_count' = 0
    /\ last_error_type' = "None"
    /\ msc_path' = "stream"
    /\ UNCHANGED nonMscVars
    /\ UNCHANGED <<raw_data, all_records, msc_result, iter_log,
                   wrong_type_reported>>

\* lines 90-155: one iteration of `while remaining_data`
MscLoopIteration ==
    /\ msc_pc = "loop"
    /\ remaining_data # <<>>
    /\ LET r       == GetBerTlvLength(remaining_data)
           off     == Len(raw_data) - Len(remaining_data)
           rbytes  == Slice(remaining_data, 0, r.len)
           outcome == IF r.ok THEN MscSchemaDecode(rbytes) ELSE "lengthError"
           app     == AllRecordsAppend(all_records, Decoded(rbytes))
           \* the try body ran to its end (lines 92-109)
           decoded == r.ok /\ r.len # 0 /\ outcome = "ok" /\ ~app.raised
           \* the handler's groupCallRecord branch (lines 115-136)
           group   == r.ok /\ r.len # 0 /\ IsGroupCallError(outcome)
           \* lines 127-133 and 143-149: the skip succeeds iff the length is readable
           skips   == r.ok /\ r.len > 0
           entry(kind) == [offset |-> off, len |-> r.len, kind |-> kind]
       IN
       IF r.ok /\ r.len = 0 THEN
            \* line 93-94: break
            /\ msc_pc' = "summary"
            /\ iter_log' = Append(iter_log, entry("stop"))
            /\ UNCHANGED <<remaining_data, all_records, record_count,
                           skipped_group_call_count, last_error_type>>
       ELSE IF decoded THEN
            /\ all_records' = app.val
            /\ remaining_data' = SliceFrom(remaining_data, r.len)
            /\ record_count' = record_count + 1
            /\ skipped_group_call_count' = 0
            /\ last_error_type' =
                   IF skipped_group_call_count > 0 THEN "None" ELSE last_error_type
            /\ iter_log' = Append(iter_log, entry("decoded"))
            /\ UNCHANGED msc_pc
       ELSE IF group THEN
            /\ skipped_group_call_count' = skipped_group_call_count + 1
            /\ last_error_type' =
                   IF skipped_group_call_count + 1 <= 3
                      \/ CurrentErrorType(outcome) # last_error_type
                   THEN CurrentErrorType(outcome) ELSE last_error_type
            /\ remaining_data' = SliceFrom(remaining_data, r.len)
            /\ record_count' = record_count + 1
            /\ iter_log' = Append(iter_log, entry("groupCallRecord"))
            /\ UNCHANGED <<msc_pc, all_records>>
       ELSE IF skips THEN
            \* any other exception of the try body, UnboundLocalError included
            /\ remaining_data' = SliceFrom(remaining_data, r.len)
            /\ record_count' = record_count + 1
            /\ iter_log' = Append(iter_log,
                                  entry(IF outcome = "ok" THEN "lost" ELSE "other"))
            /\ UNCHANGED <<msc_pc, all_records, skipped_group_call_count,
                           last_error_type>>
       ELSE
            \* lines 153-155: cannot recover, break
            /\ msc_pc' = "summary"
            /\ iter_log' = Append(iter_log, entry("stop"))
            /\ UNCHANGED <<remaining_data, all_records, record_count,
                           skipped_group_call_count, last_error_type>>
    /\ UNCHANGED nonMscVars
    /\ UNCHANGED <<raw_data, msc_result, msc_path, wrong_type_reported>>

\* line 90: remaining_data is empty, the loop ends
MscLoopExit ==
    /\ msc_pc = "loop"
    /\ remaining_data = <<>>
    /\ msc_pc' = "summary"
    /\ UNCHANGED nonMscVars
    /\ UNCHANGED <<raw_data, remaining_data, all_records, record_count,
                   skipped_group_call_count, last_error_type, msc_result,
                   msc_path, iter_log, wrong_type_reported>>

\* line 162: the number of skipped records the warning needs more than
WrongTypeThreshold == 100

\* lines 157-171: the summary of the stream path, then the return
MscFinish ==
    /\ msc_pc \in {"summary", "final"}
    /\ msc_pc' = "done"
    /\ wrong_type_reported' =
         (/\ msc_pc = "summary"
          /\ skipped_group_call_count > 0
          /\ all_records.bound                              \* else line 162 raises
          /\ Len(all_records.items) = 0
          /\ skipped_group_call_count > WrongTypeThreshold)
    /\ msc_result' =
         IF msc_pc = "summary" /\ skipped_group_call_count > 0 /\ ~all_records.bound
         THEN [kind |-> "raised", value |-> <<>>]          \* line 162: len(all_records)
         ELSE IF ~all_records.bound
         THEN [kind |-> "raised", value |-> <<>>]          \* line 169: if all_records
         ELSE IF all_records.items # <<>>
         THEN [kind |-> "returned", value |-> all_records.items]
         ELSE [kind |-> "returnedNone", value |-> <<>>]
    /\ UNCHANGED nonMscVars
    /\ UNCHANGED <<raw_data, remaining_data, all_records, record_count,
                   skipped_group_call_count, last_error_type, msc_path, iter_log>>

NextMsc ==
    \/ MscWholeFileDecoded
    \/ MscEnterStream
    \/ MscLoopIteration
    \/ MscLoopExit
    \/ MscFinish

SpecMsc == InitMsc /\ [][NextMsc]_vars


(***************************************************************************)
(* Properties of decode_msc_file                                           *)
(***************************************************************************)

\* The elements the stream loop walks over: each one spans the bytes its own
\* length field declares, as long as that length field can be read.
RECURSIVE WalkElements(_)
WalkElements(data) ==
    IF data = <<>> THEN <<>>
    ELSE LET r == GetBerTlvLength(data) IN
         IF ~r.ok THEN <<>>
         ELSE <<Slice(data, 0, r.len)>> \o WalkElements(SliceFrom(data, r.len))

\* decode_msc_file runs on: a step that can be taken is taken.  The runs
\* start from the input streams of up to MaxFairElems elements.
MaxFairElems == 3

MscFairInputs ==
    { Flatten(es) \o t : es \in SeqsUpTo(MscElements, MaxFairElems), t \in MscTails }

InitMscFair ==
    /\ InitMsc
    /\ raw_data \in MscFairInputs

SpecMscFair == InitMscFair /\ [][NextMsc]_vars /\ WF_vars(NextMsc)

\* raw_data is a stream of complete definite-length elements and nothing else
IsElementStream(data) == Flatten(WalkElements(data)) = data

RECURSIVE DecodableOf(_)
DecodableOf(elems) ==
    IF elems = <<>> THEN <<>>
    ELSE (IF MscSchemaDecode(Head(elems)) = "ok"
          THEN <<Decoded(Head(elems))>> ELSE <<>>) \o DecodableOf(Tail(elems))

GroupFailuresOf(elems) ==
    Cardinality({ i \in DOMAIN elems : IsGroupCallError(MscSchemaDecode(elems[i])) })

StreamDone == msc_pc = "done" /\ msc_path = "stream"

\* C2: the stream consists of elements that either decode or fail with the
\* recoverable groupCallRecord category, at least one of each
C2_Case ==
    LET es == WalkElements(raw_data) IN
    /\ IsElementStream(raw_data)
    /\ \A i \in DOMAIN es :
           MscSchemaDecode(es[i]) = "ok" \/ IsGroupCallError(MscSchemaDecode(es[i]))
    /\ \E i \in DOMAIN es : MscSchemaDecode(es[i]) = "ok"
    /\ \E i \in DOMAIN es : IsGroupCallError(MscSchemaDecode(es[i]))

\* C2 (stream recovery): when some elements of a stream of definite-length
\* elements fail with the recoverable category and all others decode, the
\* record-stream path returns exactly the decoded records of the non-failing
\* elements, in stream order, and the loop visits every element.
C2_StreamRecovery ==
    (StreamDone /\ C2_Case) =>
        /\ msc_result.kind = "returned"
        /\ msc_result.value = DecodableOf(WalkElements(raw_data))
        /\ Len(iter_log) = Len(WalkElements(raw_data))
        /\ \A i \in DOMAIN iter_log : iter_log[i].kind # "stop"

\* the five-element stream of the scenario (element 3 fails) has been processed
C2_FiveElementRun ==
    /\ StreamDone
    /\ raw_data = <<160, 1, 7, 160, 1, 7, 161, 0, 160, 1, 7, 160, 1, 7>>
    /\ Len(iter_log) = 5
    /\ msc_result.kind = "raised"

\* the loop stopped at an element whose length field cannot be read
StoppedAtUnreadableLength ==
    /\ StreamDone
    /\ iter_log # <<>>
    /\ iter_log[Len(iter_log)].kind = "stop"
    /\ ~GetBerTlvLength(SliceFrom(raw_data, iter_log[Len(iter_log)].offset)).ok

\* C8 (unrecoverable stream error keeps earlier results): when the length
\* field of the current element cannot be read, the stream decode stops at
\* that element and the function returns all records decoded before it.
C8_UnreadableLengthKeepsResults ==
    StoppedAtUnreadableLength =>
        LET stop   == iter_log[Len(iter_log)].offset
            before == DecodableOf(WalkElements(Slice(raw_data, 0, stop)))
        IN  /\ before # <<>> => msc_result.kind = "returned"
            /\ remaining_data = SliceFrom(raw_data, stop)
            /\ msc_result.kind \in {"returned", "returnedNone"}
            /\ msc_result.value = before

IsWrapperTagAnyConstructed(tag) == tag \in {48, 160, 180}

\* current_data[0] in [0x30, 0xA0]
IsWrapperTag(tag) == tag \in {48, 160}

\* lines 43-67: strip up to 3 outer SEQUENCE / CONTEXT headers
RECURSIVE UnwrapWrappers(_, _)
UnwrapWrappers(current_data, unwrap_count) ==
    IF Len(current_data) > 2 /\ IsWrapperTag(At(current_data, 0)) /\ unwrap_count < 3
    THEN LET length_octet == At(current_data, 1) IN
         IF length_octet < 128
         THEN UnwrapWrappers(SliceFrom(current_data, 2), unwrap_count + 1)
         ELSE IF length_octet % 128 = 0
         THEN current_data                                    \* indefinite: break
         ELSE UnwrapWrappers(SliceFrom(current_data, 2 + (length_octet % 128)),
                             unwrap_count + 1)
    ELSE current_data

\* the minimal big-endian octets of n > 0 (lines 100-104 and 206-210)
RECURSIVE LengthBytes(_)
LengthBytes(n) == IF n = 0 THEN <<>> ELSE LengthBytes(n \div 256) \o <<n % 256>>

\* lines 97-106 and 201-213: a definite length, short or long form
EncodeLength(n) ==
    IF n < 128 THEN <<n>>
    ELSE <<128 + Len(LengthBytes(n))>> \o LengthBytes(n)

\* the size below which a context-0 record is taken for the proprietary format
MinRecordContent == 20

\* lines 72-120: a leading tag 0x80 is re-tagged as sgsnPDPRecord (0xB4) with a
\* recordType field spliced in; exc names the exception the lines raise
RetagContext0(current_data) ==
    IF ~(Len(current_data) > 0 /\ At(current_data, 0) = 128)
    THEN [exc |-> "none", out |-> current_data]
    ELSE IF Len(current_data) < 2
    THEN [exc |-> "IndexError", out |-> <<>>]                 \* line 76
    ELSE LET length_octet   == At(current_data, 1)
             content_start  == IF length_octet < 128 THEN 2
                               ELSE 2 + (length_octet % 128)
             content_length == IF length_octet < 128 THEN length_octet
                               ELSE IntFromBytes(Slice(current_data, 2, content_start))
             original_content ==
                 Slice(current_data, content_start, content_start + content_length)
             new_content == <<128, 1, 18>> \o original_content
         IN  IF Len(original_content) < MinRecordContent
             THEN [exc |-> "PROPRIETARY_FORMAT_DETECTED", out |-> <<>>]
             ELSE [exc |-> "none",
                   out |-> <<180>> \o EncodeLength(Len(new_content)) \o new_content]

NotFound == -1

\* A variant that takes the end of the data for the End-of-Contents when
\* there is none.
RECURSIVE FindEndOfContentsOrEnd(_, _, _)
FindEndOfContentsOrEnd(data, pos, current_nesting) ==
    IF ~(pos < Len(data) - 1) THEN Len(data)
    ELSE IF At(data, pos) = 0 /\ At(data, pos + 1) = 0
    THEN IF current_nesting = 0 THEN pos
         ELSE FindEndOfContentsOrEnd(data, pos + 2, current_nesting - 1)
    ELSE IF At(data, pos + 1) = 128
    THEN FindEndOfContentsOrEnd(data, pos + 2, current_nesting + 1)
    ELSE LET length_octet == At(data, pos + 1) IN
         IF length_octet < 128
         THEN FindEndOfContentsOrEnd(data, pos + 2 + length_octet, current_nesting)
         ELSE LET num_length_octets == length_octet % 128 IN
              IF pos + 2 + num_length_octets >= Len(data) THEN Len(data)
              ELSE FindEndOfContentsOrEnd(
                       data,
                       pos + 2 + num_length_octets
                           + IntFromBytes(Slice(data, pos + 2, pos + 2 + num_length_octets)),
                       current_nesting)

\* lines 126-173: the position of the End-of-Contents that closes the element
\* whose content starts at pos, or NotFound
RECURSIVE FindEndOfContents(_, _, _)
FindEndOfContents(data, pos, current_nesting) ==
    IF ~(pos < Len(data) - 1) THEN NotFound
    ELSE IF At(data, pos) = 0 /\ At(data, pos + 1) = 0
    THEN IF current_nesting = 0 THEN pos
         ELSE FindEndOfContents(data, pos + 2, current_nesting - 1)
    ELSE IF At(data, pos + 1) = 128
    THEN FindEndOfContents(data, pos + 2, current_nesting + 1)
    ELSE LET length_octet == At(data, pos + 1) IN
         IF length_octet < 128
         THEN FindEndOfContents(data, pos + 2 + length_octet, current_nesting)
         ELSE LET num_length_octets == length_octet % 128 IN
              IF pos + 2 + num_length_octets >= Len(data) THEN NotFound
              ELSE FindEndOfContents(
                       data,
                       pos + 2 + num_length_octets
                           + IntFromBytes(Slice(data, pos + 2, pos + 2 + num_length_octets)),
                       current_nesting)

RECURSIVE ConvertIndefiniteToDefiniteLength(_)
RECURSIVE ConvertLoop(_, _, _)

\* lines 175-243: the conversion loop over current_data from offset on
ConvertLoop(current_data, offset, result) ==
    IF ~(offset < Len(current_data)) THEN [exc |-> "none", out |-> result]
    ELSE IF offset + 1 >= Len(current_data)
    THEN [exc |-> "none", out |-> result \o SliceFrom(current_data, offset)]
    ELSE LET tag          == At(current_data, offset)
             length_octet == At(current_data, offset + 1)
         IN
         IF length_octet = 128 THEN
            LET content_start == offset + 2
                content_end   == FindEndOfContents(current_data, content_start, 0)
            IN  IF content_end = NotFound
                THEN [exc |-> "none", out |-> result \o SliceFrom(current_data, offset)]
                ELSE LET content_length == content_end - content_start
                         content == Slice(current_data, content_start, content_end)
                         processed_content == ConvertIndefiniteToDefiniteLength(content)
                     IN  IF processed_content.exc # "none" THEN processed_content
                         ELSE ConvertLoop(current_data, content_end + 2,
                                          result \o <<tag>> \o EncodeLength(content_length)
                                                 \o processed_content.out)
         ELSE IF length_octet < 128 THEN
            LET end_pos == Min(offset + 2 + length_octet, Len(current_data))
            IN  ConvertLoop(current_data, end_pos,
                            result \o Slice(current_data, offset, end_pos))
         ELSE
            LET num_length_octets == length_octet % 128 IN
            IF offset + 2 + num_length_octets > Len(current_data)
            THEN [exc |-> "none", out |-> result \o SliceFrom(current_data, offset)]
            ELSE LET value_length ==
                         IntFromBytes(Slice(current_data, offset + 2,
                                            offset + 2 + num_length_octets))
                     end_pos == Min(offset + 2 + num_length_octets + value_length,
                                    Len(current_data))
                 IN  ConvertLoop(current_data, end_pos,
                                 result \o Slice(current_data, offset, end_pos))

\* lines 32-243
ConvertIndefiniteToDefiniteLength(data) ==
    LET retagged == RetagContext0(UnwrapWrappers(data, 0))
    IN  IF retagged.exc # "none" THEN retagged
        ELSE ConvertLoop(retagged.out, 0, <<>>)

(***************************************************************************)
(* Inputs of the converter                                                 *)
(***************************************************************************)
MaxItems == 2     \* primitives in one constructed element
MaxRaw   == 4     \* length of an arbitrary byte string

Prims == { <<2, 1, 5>>,            \* INTEGER 5
           <<4, 2, 0, 0>>,         \* OCTET STRING holding two zero octets
           <<4, 129, 1, 9>> }      \* OCTET STRING, long-form length 0x81 0x01

PrimSeqs == SeqsUpTo(Prims, MaxItems)
OptPrim  == { <<>> } \cup { p : p \in Prims }

\* the indefinite-length encoding of a constructed element
Indef(tag, content) == <<tag, 128>> \o content \o <<0, 0>>
\* the definite-length encoding of a constructed element
Def(tag, content) == <<tag>> \o EncodeLength(Len(content)) \o content

InnerTags == {48, 161}             \* 0x30, 0xA1
OuterTags == {48, 164, 180}        \* 0x30, 0xA4, 0xB4
DefTags   == {48, 160, 161, 180}   \* 0x30, 0xA0, 0xA1, 0xB4

IndefDepth1 == { Indef(t, Flatten(ps)) : t \in InnerTags \cup OuterTags, ps \in PrimSeqs }

\* an indefinite-length element that holds one indefinite-length element
IndefDepth2 ==
    { Indef(t, pre \o Indef(u, Flatten(ps)) \o post) :
        t \in OuterTags, u \in InnerTags, ps \in PrimSeqs,
        pre \in OptPrim, post \in OptPrim }

DefElems == Prims \cup { Def(t, Flatten(ps)) : t \in DefTags, ps \in PrimSeqs }

\* one definite-length element, alone or next to a primitive
DefiniteInputs ==
    DefElems \cup { e \o p : e \in DefElems, p \in Prims }
             \cup { p \o e : e \in DefElems, p \in Prims }

RawBytes == {0, 2, 48, 128, 129}
RawInputs == SeqsUpTo(RawBytes, MaxRaw)

Filler(n) == [i \in 1..n |-> 85]

SpecialInputs ==
    { <<128, 20>> \o Filler(20),                       \* context-0 record, 20 bytes
      <<48, 24>> \o <<128, 22>> \o Filler(22),         \* the same inside a SEQUENCE
      <<128, 129, 130>> \o Filler(130),                \* context-0 record, long form
      Indef(180, <<4, 129, 130>> \o Filler(130)),      \* content of 133 bytes
      <<180, 128, 2, 1, 5>>,                           \* no End-of-Contents
      Indef(180, <<128, 1, 18, 2, 1, 5>>),             \* first field has tag 0x80
      <<128, 32>> \o Filler(5) }                       \* context-0 record cut short

\* Inputs that end in an indefinite-length element without End-of-Contents,
\* each with the output expected of it: the elements before it converted
\* (tags that are no wrappers), then the element itself as it stands.
UnterminatedTags == {48, 161, 180}
LeadingTags == {161, 180}

\* an opened element: its primitives, or an element with its own
\* End-of-Contents and nothing to close the outer one
Unterminated ==
    { <<t, 128>> \o Flatten(ps) : t \in UnterminatedTags, ps \in PrimSeqs }
    \cup { <<t, 128>> \o Indef(u, Flatten(ps)) :
             t \in UnterminatedTags, u \in InnerTags, ps \in PrimSeqs }

\* what may stand before it: nothing, a primitive, a terminated element
Leaders ==
    { [input |-> <<>>, expected |-> <<>>] }
    \cup { [input |-> p, expected |-> p] : p \in Prims }
    \cup { [input |-> Indef(t, Flatten(ps)), expected |-> Def(t, Flatten(ps))] :
             t \in LeadingTags, ps \in PrimSeqs }

UnterminatedCases ==
    { [input |-> l.input \o u, expected |-> l.expected \o u] :
        l \in Leaders, u \in Unterminated }
    \* the same inside a definite-length SEQUENCE, which is stripped (lines 43-67)
    \cup { [input |-> Def(48, u), expected |-> u] :
             u \in { v \in Unterminated : v[1] # 48 } }

ConvInputs == IndefDepth1 \cup IndefDepth2 \cup DefiniteInputs \cup RawInputs
              \cup SpecialInputs \cup { c.input : c \in UnterminatedCases }

InitConv ==
    /\ raw_data \in ConvInputs
    /\ conv_pc = "ready"
    /\ conv_result = [exc |-> "none", out |-> <<>>]
    /\ conv_again = [exc |-> "none", out |-> <<>>]
    /\ MscIdle
    /\ SgsnIdle
    /\ FnIdle

\* one call convert_indefinite_to_definite_length(raw_data)
ConvCall ==
    /\ conv_pc = "ready"
    /\ conv_result' = ConvertIndefiniteToDefiniteLength(raw_data)
    /\ conv_pc' = "done"
    /\ UNCHANGED <<raw_data, conv_again>>
    /\ UNCHANGED nonConvVars

\* a second call, convert_indefinite_to_definite_length(result), on the bytes
\* the first call returned
ConvCallAgain ==
    /\ conv_pc = "done"
    /\ conv_result.exc = "none"
    /\ conv_again' = ConvertIndefiniteToDefiniteLength(conv_result.out)
    /\ conv_pc' = "again"
    /\ UNCHANGED <<raw_data, conv_result>>
    /\ UNCHANGED nonConvVars

NextConv ==
    \/ ConvCall
    \/ ConvCallAgain

SpecConv == InitConv /\ [][NextConv]_vars

(***************************************************************************)
(* Properties of convert_indefinite_to_definite_length                     *)
(***************************************************************************)
IsConstructed(tag) == (tag \div 32) % 2 = 1

\* b is a sequence of definite-length elements, each of which holds exactly the
\* bytes its length declares, and so does the content of every constructed one
RECURSIVE LengthsConsistent(_)
LengthsConsistent(b) ==
    IF b = <<>> THEN TRUE
    ELSE IF Len(b) < 2 \/ b[2] = 128 THEN FALSE
    ELSE LET k   == IF b[2] < 128 THEN 0 ELSE b[2] % 128
             hdr == 2 + k
         IN  IF hdr > Len(b) THEN FALSE
             ELSE LET n == IF b[2] < 128 THEN b[2] ELSE IntFromBytes(Slice(b, 2, hdr))
                  IN  /\ hdr + n <= Len(b)
                      /\ IsConstructed(b[1]) => LengthsConsistent(Slice(b, hdr, hdr + n))
                      /\ LengthsConsistent(SliceFrom(b, hdr + n))

ConvDone == conv_pc = "done"
Unchanged == [exc |-> "none", out |-> raw_data]

\* C3 (length-correct normalization): for an indefinite-length element that
\* holds an indefinite-length element, the result is a definite-length tree in
\* which every declared length equals the byte count of the content emitted,
\* with no length octet 0x80 left.
C3_NestedLengthsCorrect ==
    (ConvDone /\ raw_data \in IndefDepth2) =>
        /\ conv_result.exc = "none"
        /\ LengthsConsistent(conv_result.out)

\* the input is made only of well-formed definite-length elements
IsDefiniteInput(data) == data # <<>> /\ LengthsConsistent(data)

C13_Idempotent ==
    conv_pc = "again" => conv_again = conv_result

\* the top-level data, after the wrappers are stripped, begins with tag 0x80
\* and a definite length below MinRecordContent
TopLevelContext0Small(data) ==
    LET current_data == UnwrapWrappers(data, 0) IN
    /\ Len(current_data) >= 2
    /\ At(current_data, 0) = 128
    /\ LET length_octet == At(current_data, 1) IN
       IF length_octet < 128 THEN length_octet < MinRecordContent
       ELSE /\ length_octet % 128 > 0
            /\ 2 + (length_octet % 128) <= Len(current_data)
            /\ IntFromBytes(Slice(current_data, 2, 2 + (length_octet % 128)))
                 < MinRecordContent

\* C23 (ProprietaryFormat signal): the call raises PROPRIETARY_FORMAT_DETECTED
\* if and only if the top-level data, after the wrappers are stripped, begins
\* with tag 0x80 and a definite length below 20; in particular the
\* normalization of the content of an indefinite-length element never raises it.
C23_ProprietarySignal ==
    ConvDone =>
        (conv_result.exc = "PROPRIETARY_FORMAT_DETECTED"
            <=> TopLevelContext0Small(raw_data))

StrOfNibble(n) == IF n < 10 THEN <<n>> ELSE <<1, n - 10>>

\* A variant that leaves the filler nibbles out and reads on.
DecodeBcdVariantSkippingFiller(data, swap_nibbles) ==
    LET first_nibble(i)  == IF swap_nibbles THEN data[i] % 16 ELSE data[i] \div 16
        second_nibble(i) == IF swap_nibbles THEN data[i] \div 16 ELSE data[i] % 16
    IN  Flatten([i \in DOMAIN data |->
                    (IF first_nibble(i) = 15 THEN <<>>
                     ELSE StrOfNibble(first_nibble(i)))
                    \o (IF second_nibble(i) = 15 THEN <<>>
                        ELSE StrOfNibble(second_nibble(i)))])

\* msc_compiler.decode_bcd_variant on bytes: of every byte the low nibble
\* then the high one if swap_nibbles, else the high then the low one; the loop
\* breaks at the first filler nibble 0xF
DecodeBcdVariant(data, swap_nibbles) ==
    LET first_nibble(i)  == IF swap_nibbles THEN data[i] % 16 ELSE data[i] \div 16
        second_nibble(i) == IF swap_nibbles THEN data[i] \div 16 ELSE data[i] % 16
        fillers == { i \in DOMAIN data :
                       first_nibble(i) = 15 \/ second_nibble(i) = 15 }
        \* the byte at which the loop breaks, if any
        last == IF fillers = {} THEN Len(data)
                ELSE CHOOSE i \in fillers : \A j \in fillers : i <= j
    IN  Flatten([i \in 1..last |->
                    IF first_nibble(i) = 15 THEN <<>>
                    ELSE IF second_nibble(i) = 15 THEN StrOfNibble(first_nibble(i))
                    ELSE StrOfNibble(first_nibble(i))
                             \o StrOfNibble(second_nibble(i))])

\* msc_compiler.decode_tbcd
MscDecodeTbcd(data) == DecodeBcdVariant(data, TRUE)

\* msc_compiler.decode_bcd
MscDecodeBcd(bcd_data) == DecodeBcdVariant(bcd_data, FALSE)

\* A variant that reads the high nibble of every byte first.
DecodeTbcdHighFirst(tbcd_data) == DecodeBcdVariant(tbcd_data, FALSE)

\* utils.decode_tbcd: low nibble first, then the high nibble, of every byte;
\* the loop breaks at the first filler nibble 0xF
DecodeTbcd(tbcd_data) ==
    LET lsb(i) == tbcd_data[i] % 16
        msb(i) == tbcd_data[i] \div 16
        fillers == { i \in DOMAIN tbcd_data : lsb(i) = 15 \/ msb(i) = 15 }
        \* the byte at which the loop breaks, if any
        last == IF fillers = {} THEN Len(tbcd_data)
                ELSE CHOOSE i \in fillers : \A j \in fillers : i <= j
    IN  Flatten([i \in 1..last |->
                    IF lsb(i) = 15 THEN <<>>
                    ELSE IF msb(i) = 15 THEN StrOfNibble(lsb(i))
                    ELSE StrOfNibble(lsb(i)) \o StrOfNibble(msb(i))])

NoneValue == [some |-> FALSE, val |-> <<>>]
Some(v) == [some |-> TRUE, val |-> v]

\* the first element of opts that is not None, or None
FirstSome(opts) ==
    Only({ IF \E i \in DOMAIN o : o[i].some
           THEN o[CHOOSE i \in DOMAIN o :
                      o[i].some /\ \A j \in DOMAIN o : o[j].some => i <= j]
           ELSE NoneValue
           : o \in {opts} })

\* the calendar of datetime (proleptic Gregorian)
IsLeap(y) == (y % 4 = 0 /\ y % 100 # 0) \/ y % 400 = 0

DaysInMonth(y, m) ==
    IF m = 2 THEN (IF IsLeap(y) THEN 29 ELSE 28)
    ELSE IF m \in {4, 6, 9, 11} THEN 30 ELSE 31

\* datetime(y, m, d) does not raise ValueError
ValidDate(y, m, d) == y \in 1..9999 /\ m \in 1..12 /\ d \in 1..DaysInMonth(y, m)

\* days from 1970-01-01 to y-m-d
DaysFromCivil(y, m, d) ==
    LET yy  == IF m <= 2 THEN y - 1 ELSE y
        era == yy \div 400
        yoe == yy - era * 400
        mp  == IF m > 2 THEN m - 3 ELSE m + 9
        doy == (153 * mp + 2) \div 5 + d - 1
        doe == yoe * 365 + yoe \div 4 - yoe \div 100 + doy
    IN  era * 146097 + doe - 719468

\* the date <<y, m, d>> that lies z days after 1970-01-01
CivilFromDays(z) ==
    LET zz  == z + 719468
        era == zz \div 146097
        doe == zz - era * 146097
        yoe == (doe - doe \div 1460 + doe \div 36524 - doe \div 146096) \div 365
        doy == doe - (365 * yoe + yoe \div 4 - yoe \div 100)
        mp  == (5 * doy + 2) \div 153
        d   == doy - (153 * mp + 2) \div 5 + 1
        m   == IF mp < 10 THEN mp + 3 ELSE mp - 9
        y   == yoe + era * 400
    IN  <<IF m <= 2 THEN y + 1 ELSE y, m, d>>

\* datetime(y, m, d, tzinfo=utc).isoformat()
IsoDate(y, m, d) == <<y, m, d, 0, 0, 0>>

\* the high and low nibble of every byte, in order (bytes.hex())
HexNibbles(bs) ==
    [i \in 1..(2 * Len(bs)) |->
        IF i % 2 = 1 THEN bs[(i + 1) \div 2] \div 16 ELSE bs[i \div 2] % 16]

\* lines 85-92: the nibbles of the first six bytes that are decimal digits
BcdDigits(raw_bytes) ==
    SelectSeq(HexNibbles(Slice(raw_bytes, 0, 6)), LAMBDA n : n <= 9)

\* A variant that takes the byte's binary value.
IntOfHexTextBinary(b) == Some(b)

\* int(f'{b:02x}'): the two hex characters read as a decimal number; a
\* character a-f raises ValueError
IntOfHexText(b) ==
    IF b \div 16 <= 9 /\ b % 16 <= 9 THEN Some((b \div 16) * 10 + (b % 16))
    ELSE NoneValue

\* lines 82-112, format 1: 3GPP BCD YYMMDDhhmmss with an optional zone
\* (sign byte, hours, minutes); the local time is converted to UTC
TimestampFormat1(raw_bytes) ==
    IF ~(6 <= Len(raw_bytes) /\ Len(raw_bytes) <= 9) THEN NoneValue
    ELSE Only({
    IF Len(bcd_digits) < 12 THEN NoneValue
    ELSE LET two(i) == bcd_digits[i] * 10 + bcd_digits[i + 1]
             year   == IF two(1) < 69 THEN 2000 + two(1) ELSE 1900 + two(1)
             \* strptime('%y%m%d%H%M%S') accepts the twelve digits
             parsed == /\ ValidDate(year, two(3), two(5))
                       /\ two(7) <= 23 /\ two(9) <= 59 /\ two(11) <= 59
         IN
         IF ~parsed THEN NoneValue
         ELSE IF Len(raw_bytes) < 9
         THEN Some(<<year, two(3), two(5), two(7), two(9), two(11)>>)
         ELSE LET tz_sign == IF At(raw_bytes, 6) = 45 THEN -1 ELSE 1
                  tz_h    == IntOfHexText(At(raw_bytes, 7))
                  tz_m    == IntOfHexText(At(raw_bytes, 8))
              IN
              IF ~tz_h.some \/ ~tz_m.some THEN NoneValue
              \* timezone() wants an offset strictly inside (-24h, 24h)
              ELSE IF tz_h.val * 60 + tz_m.val >= 1440 THEN NoneValue
              ELSE LET local == DaysFromCivil(year, two(3), two(5)) * 1440
                                    + two(7) * 60 + two(9)
                       utc   == local - tz_sign * (tz_h.val * 60 + tz_m.val)
                       date  == CivilFromDays(utc \div 1440)
                   IN  Some(<<date[1], date[2], date[3],
                              (utc % 1440) \div 60, utc % 60, two(11)>>)
    : bcd_digits \in {BcdDigits(raw_bytes)} })

\* line 123: the epoch seconds accepted by format 2 (both ends included)
EpochMin == 946684800
EpochMax == 1893456000

\* datetime.fromtimestamp(timestamp, tz=utc).isoformat()
FromTimestamp(timestamp) ==
    LET date == CivilFromDays(timestamp \div 86400)
        secs == timestamp % 86400
    IN  <<date[1], date[2], date[3], secs \div 3600, (secs % 3600) \div 60, secs % 60>>

\* lines 114-127, format 2: a big-endian Unix timestamp of 4 or 8 bytes.  A
\* value of 2^31 or more lies above EpochMax and is rejected unconverted.
TimestampFormat2(raw_bytes) ==
    IF Len(raw_bytes) \notin {4, 8} THEN NoneValue
    ELSE LET low4  == SliceFrom(raw_bytes, Len(raw_bytes) - 4)
             high  == Slice(raw_bytes, 0, Len(raw_bytes) - 4)
             small == (\A i \in DOMAIN high : high[i] = 0) /\ low4[1] < 128
         IN  IF small /\ EpochMin <= IntFromBytes(low4) /\ IntFromBytes(low4) <= EpochMax
             THEN Some(FromTimestamp(IntFromBytes(low4)))
             ELSE NoneValue

IsDigitChar(c) == c \in 48..57

\* the two characters a b as the %m field of strptime
MonthField(a, b) ==
    IF IsDigitChar(a) /\ IsDigitChar(b) /\ (a - 48) * 10 + (b - 48) \in 1..12
    THEN Some((a - 48) * 10 + (b - 48)) ELSE NoneValue

\* the two characters a b as the %d field of strptime (" 7" is accepted)
DayField(a, b) ==
    IF IsDigitChar(a) /\ IsDigitChar(b) /\ (a - 48) * 10 + (b - 48) \in 1..31
    THEN Some((a - 48) * 10 + (b - 48))
    ELSE IF a = 32 /\ b \in 49..57 THEN Some(b - 48)
    ELSE NoneValue

\* the four characters of s from position i (1-based) as the %Y field
YearField(s, i) ==
    IF \A k \in i..(i + 3) : IsDigitChar(s[k])
    THEN Some((s[i] - 48) * 1000 + (s[i + 1] - 48) * 100
              + (s[i + 2] - 48) * 10 + (s[i + 3] - 48))
    ELSE NoneValue

\* datetime.strptime(s, fmt) for a string s of exactly ten characters; a
\* parse that leaves characters unconverted raises ValueError, so every
\* field takes its full width
StrptimeDate(y, m, d, separators_ok) ==
    IF separators_ok /\ y.some /\ m.some /\ d.some /\ ValidDate(y.val, m.val, d.val)
    THEN Some(IsoDate(y.val, m.val, d.val)) ELSE NoneValue

\* lines 129-149, format 3: a date spelled in the printable characters
TimestampFormat3(raw_bytes) ==
    Only({
    IF Len(readable_chars) < 10 THEN NoneValue
    ELSE Only({
         FirstSome(<<
            \* '%Y-%m-%d'
            StrptimeDate(YearField(s, 1), MonthField(s[6], s[7]), DayField(s[9], s[10]),
                         s[5] = 45 /\ s[8] = 45),
            \* '%Y%m%d' consumes at most eight characters of the ten
            NoneValue,
            \* '%d/%m/%Y'
            StrptimeDate(YearField(s, 7), MonthField(s[4], s[5]), DayField(s[1], s[2]),
                         s[3] = 47 /\ s[6] = 47),
            \* '%m/%d/%Y'
            StrptimeDate(YearField(s, 7), MonthField(s[1], s[2]), DayField(s[4], s[5]),
                         s[3] = 47 /\ s[6] = 47) >>)
         : s \in {SubSeq(readable_chars, 1, 10)} })
    : readable_chars \in {SelectSeq(raw_bytes, LAMBDA b : 32 <= b /\ b <= 126)} })

\* lines 163-165: a year / month / day triple in the accepted ranges
PlausibleDate(year, month, day) ==
    IF 2000 <= year /\ year <= 2030 /\ 1 <= month /\ month <= 12
       /\ 1 <= day /\ day <= 31 /\ ValidDate(year, month, day)
    THEN Some(IsoDate(year, month, day)) ELSE NoneValue

\* lines 151-169, format 4: a binary year (2 bytes), month, day at offsets 0..3
TimestampFormat4(raw_bytes) ==
    IF Len(raw_bytes) < 4 THEN NoneValue
    ELSE LET n == Min(4, Len(raw_bytes) - 3)
             big(k)    == PlausibleDate(At(raw_bytes, k) * 256 + At(raw_bytes, k + 1),
                                        At(raw_bytes, k + 2), At(raw_bytes, k + 3))
             little(k) == PlausibleDate(At(raw_bytes, k) + At(raw_bytes, k + 1) * 256,
                                        At(raw_bytes, k + 2), At(raw_bytes, k + 3))
         IN  FirstSome([i \in 1..(2 * n) |->
                            IF i <= n THEN big(i - 1) ELSE little(i - n - 1)])

\* hex(year)[2:].zfill(4) as nibbles
YearHex(year) == <<(year \div 4096) % 16, (year \div 256) % 16,
                   (year \div 16) % 16, year % 16>>

\* hex_str.find(year_hex): the first 0-based position, or NotFound
FindHex(hex_str, year_hex) ==
    Only({ IF hits = {} THEN NotFound
           ELSE CHOOSE i \in hits : \A j \in hits : i <= j
           : hits \in {{ i \in 0..(Len(hex_str) - 4) :
                           SubSeq(hex_str, i + 1, i + 4) = year_hex }} })

\* the month and day read as two hex characters each from 0-based position p
HexDate(hex_str, year, p) ==
    IF p + 4 <= Len(hex_str)
    THEN PlausibleDate(year, hex_str[p + 1] * 16 + hex_str[p + 2],
                             hex_str[p + 3] * 16 + hex_str[p + 4])
    ELSE NoneValue

\* lines 171-194, format 5: a year 2000..2030 found in the hex text, with the
\* month and the day right after it
TimestampFormat5(raw_bytes) ==
    Only({ FirstSome([i \in 1..31 |->
               Only({ IF year_pos = NotFound THEN NoneValue
                      ELSE HexDate(hex_str, 1999 + i, year_pos + 4)
                      : year_pos \in {FindHex(hex_str, YearHex(1999 + i))} })])
           : hex_str \in {HexNibbles(raw_bytes)} })

\* lines 196-222: the same search with the month and day 4, 6 or 8 hex
\* characters after the year
TimestampFormat5Offsets(raw_bytes) ==
    Only({ FirstSome([i \in 1..31 |->
               Only({ IF year_pos = NotFound THEN NoneValue
                      ELSE FirstSome(<<HexDate(hex_str, 1999 + i, year_pos + 4),
                                       HexDate(hex_str, 1999 + i, year_pos + 6),
                                       HexDate(hex_str, 1999 + i, year_pos + 8)>>)
                      : year_pos \in {FindHex(hex_str, YearHex(1999 + i))} })])
           : hex_str \in {HexNibbles(raw_bytes)} })

\* _try_multiple_timestamp_formats: the first format that succeeds
TryMultipleTimestampFormats(raw_bytes) ==
    IF TimestampFormat1(raw_bytes).some THEN TimestampFormat1(raw_bytes)
    ELSE IF TimestampFormat2(raw_bytes).some THEN TimestampFormat2(raw_bytes)
    ELSE IF TimestampFormat3(raw_bytes).some THEN TimestampFormat3(raw_bytes)
    ELSE IF TimestampFormat4(raw_bytes).some THEN TimestampFormat4(raw_bytes)
    ELSE IF TimestampFormat5(raw_bytes).some THEN TimestampFormat5(raw_bytes)
    ELSE TimestampFormat5Offsets(raw_bytes)

\* parse_3gpp_timestamp on a bytes argument
Parse3gppTimestamp(raw_bytes) ==
    Only({ TryMultipleTimestampFormats(b) : b \in {raw_bytes} })

(***************************************************************************)
(* asn1/direct_binary_parser.py: DirectBinaryParser                        *)
(*                                                                         *)
(* A Python dict is a function on strings; {} is EmptyDict.                *)
(***************************************************************************)
EmptyDict == [k \in {} |-> 0]

Abs(n) == IF n < 0 THEN -n ELSE n

\* int.from_bytes(bs, 'big') where the caller only compares the value with
\* numbers up to cap: the value itself below cap, cap from there on
RECURSIVE IntFromBytesCapped(_, _)
IntFromBytesCapped(bs, cap) ==
    IF bs = <<>> THEN 0
    ELSE LET high == IntFromBytesCapped(SubSeq(bs, 1, Len(bs) - 1), cap)
         IN  IF high * 256 + bs[Len(bs)] >= cap THEN cap
             ELSE high * 256 + bs[Len(bs)]

\* line 216: the largest content length (exclusive) of a plausible tag
MaxContentLength == 10000

\* A variant without the upper limit on the content length.
LooksLikeTagUnbounded(data, tag, i) ==
    /\ At(data, i) = tag
    /\ LET length_byte == At(data, i + 1)
           num_octets  == length_byte % 128
       IN  IF length_byte < 128 THEN 0 < length_byte
           ELSE /\ num_octets > 0
                /\ num_octets <= 4
                /\ i + 1 + num_octets < Len(data)
                /\ 0 < IntFromBytesCapped(Slice(data, i + 2, i + 2 + num_octets),
                                          MaxContentLength)

\* _find_context_tag lines 194-216: position i holds the tag and a length
\* field that reads as a content length in 1..9999
LooksLikeTag(data, tag, i) ==
    /\ At(data, i) = tag
    /\ LET length_byte == At(data, i + 1)
           num_octets  == length_byte % 128
       IN  IF length_byte < 128 THEN 0 < length_byte
           ELSE /\ num_octets > 0
                /\ num_octets <= 4
                /\ i + 1 + num_octets < Len(data)
                /\ LET content_length ==
                           IntFromBytesCapped(Slice(data, i + 2, i + 2 + num_octets),
                                              MaxContentLength)
                   IN  0 < content_length /\ content_length < MaxContentLength

\* _find_context_tag: the offsets of the tag, ascending
FindContextTag(data, tag) ==
    SelectSeq([i \in 1..(Len(data) - 1) |-> i - 1],
              LAMBDA i : LooksLikeTag(data, tag, i))

\* the value bytes of the element at offset (lines 345-366, and the same
\* steps at 389-410, 501-525, 91-104 and 120-133); None where the code gives up
ContextValue(data, offset) ==
    LET length_byte == At(data, offset + 1)
        num_octets  == length_byte % 128
        pos         == IF length_byte < 128 THEN offset + 2 ELSE offset + 2 + num_octets
        ctx_length  == IF length_byte < 128 THEN length_byte
                       ELSE IntFromBytesCapped(Slice(data, offset + 2, pos), Len(data) + 1)
    IN  IF length_byte >= 128 /\ offset + 2 + num_octets > Len(data) THEN NoneValue
        ELSE IF pos + ctx_length > Len(data) THEN NoneValue
        ELSE Some(Slice(data, pos, pos + ctx_length))

\* _decode_tbcd lines 459-468: low nibble then high nibble of every byte, the
\* filler nibbles 0xF left out
SwapNibbles(data) ==
    Flatten([i \in DOMAIN data |->
                LET low_nibble  == data[i] % 16
                    high_nibble == data[i] \div 16
                IN  (IF low_nibble # 15 THEN StrOfNibble(low_nibble) ELSE <<>>)
                    \o (IF high_nibble # 15 THEN StrOfNibble(high_nibble) ELSE <<>>)])

\* DirectBinaryParser._decode_tbcd with show_steps = False
ParserDecodeTbcd(data) ==
    IF data = <<>> THEN NoneValue
    ELSE IF SwapNibbles(data) = <<>> THEN NoneValue
    ELSE Some(SwapNibbles(data))

\* _extract_from_context_3
ExtractFromContext3(data, offset) ==
    IF offset + 10 > Len(data) THEN NoneValue
    ELSE IF At(data, offset) # 131 THEN NoneValue
    ELSE LET imsi_data == ContextValue(data, offset) IN
         IF ~imsi_data.some THEN NoneValue
         ELSE LET decoded_imsi == ParserDecodeTbcd(imsi_data.val) IN
              IF decoded_imsi.some THEN Some([servedIMSI |-> decoded_imsi.val])
              ELSE NoneValue

\* _extract_from_context_27: the digits are all decimal, so the first match of
\* \d{7,16} in a string of more than 16 characters is its first 16 characters
ExtractFromContext27(data, offset) ==
    IF offset + 10 > Len(data) THEN NoneValue
    ELSE IF At(data, offset) # 155 THEN NoneValue
    ELSE LET msisdn_data == ContextValue(data, offset) IN
         IF ~msisdn_data.some THEN NoneValue
         ELSE LET decoded == DecodeTbcd(msisdn_data.val)
                  decoded_msisdn == IF Len(decoded) > 16 THEN SubSeq(decoded, 1, 16)
                                    ELSE decoded
              IN  IF decoded_msisdn # <<>> THEN Some([servedMSISDN |-> decoded_msisdn])
                  ELSE NoneValue

\* A variant that lets the value 0 through.
SequenceNumberFromZero(int_data) ==
    LET n     == Len(int_data)
        low4  == SliceFrom(int_data, n - 4)
        fits  == /\ \A i \in 1..(n - 4) : int_data[i] = 0
                 /\ (n < 4 \/ low4[1] < 128)
    IN  IF fits THEN Some(IntFromBytes(low4)) ELSE NoneValue

\* lines 257-260: int.from_bytes(int_data) when it lies in 1 .. 2^31 - 1
SequenceNumber(int_data) ==
    LET n     == Len(int_data)
        low4  == SliceFrom(int_data, n - 4)
        fits  == /\ \A i \in 1..(n - 4) : int_data[i] = 0
                 /\ (n < 4 \/ low4[1] < 128)
    IN  IF fits /\ IntFromBytes(low4) > 0 THEN Some(IntFromBytes(low4)) ELSE NoneValue

\* lines 293-311: the first plausible INTEGER inside a context-specific field
RECURSIVE ScanSubContent(_, _, _)
ScanSubContent(sub_content, sub_pos, found_sequence_num) ==
    IF ~(sub_pos < Len(sub_content) - 1) THEN found_sequence_num
    ELSE LET sub_int_length == At(sub_content, sub_pos + 1) IN
         IF At(sub_content, sub_pos) = 2
            /\ sub_pos + 2 + sub_int_length <= Len(sub_content)
            /\ sub_int_length <= 8
         THEN LET num == SequenceNumber(Slice(sub_content, sub_pos + 2,
                                              sub_pos + 2 + sub_int_length))
              IN  ScanSubContent(sub_content, sub_pos + 2 + sub_int_length,
                                 IF num.some /\ ~found_sequence_num.some
                                 THEN num ELSE found_sequence_num)
         ELSE ScanSubContent(sub_content, sub_pos + 1, found_sequence_num)

\* lines 248-319: the scan of the content of a CONTEXT_21 element
RECURSIVE ScanContent(_, _, _, _)
ScanContent(content, content_pos, found_sequence_num, found_node_id) ==
    IF ~(content_pos < Len(content) - 1)
    THEN [found_sequence_num |-> found_sequence_num, found_node_id |-> found_node_id]
    ELSE LET tag == At(content, content_pos)
             len == At(content, content_pos + 1)
             fits == content_pos + 2 + len <= Len(content)
             body == Slice(content, content_pos + 2, content_pos + 2 + len)
         IN
         IF tag = 2 /\ fits /\ len <= 8
         THEN ScanContent(content, content_pos + 2 + len,
                          IF SequenceNumber(body).some /\ ~found_sequence_num.some
                          THEN SequenceNumber(body) ELSE found_sequence_num,
                          found_node_id)
         ELSE IF tag = 4 /\ fits /\ 1 <= len /\ len <= 20
         THEN ScanContent(content, content_pos + 2 + len, found_sequence_num,
                          IF ~found_node_id.some THEN Some(HexNibbles(body))
                          ELSE found_node_id)
         ELSE IF tag \in {128, 129, 130, 160, 161, 162} /\ fits
         THEN ScanContent(content, content_pos + 2 + len,
                          ScanSubContent(body, 0, found_sequence_num), found_node_id)
         ELSE ScanContent(content, content_pos + 1, found_sequence_num, found_node_id)

\* _extract_from_context_21: the length byte is taken as it stands
ExtractFromContext21(data, offset) ==
    IF offset + 10 > Len(data) THEN NoneValue
    ELSE IF At(data, offset) # 149 THEN NoneValue
    ELSE LET length == At(data, offset + 1)
             pos    == offset + 2
         IN
         IF pos + length > Len(data) THEN NoneValue
         ELSE LET found == ScanContent(Slice(data, pos, pos + length), 0,
                                       NoneValue, NoneValue)
                  result ==
                      (IF found.found_sequence_num.some
                       THEN [localSequenceNumber  |-> found.found_sequence_num.val,
                             recordSequenceNumber |-> found.found_sequence_num.val]
                       ELSE EmptyDict)
                      @@ (IF found.found_node_id.some
                          THEN [recordNodeId |-> found.found_node_id.val]
                          ELSE EmptyDict)
              IN  IF result # EmptyDict THEN Some(result) ELSE NoneValue

\* _extract_timestamp_from_context_16: the value of the element, or else the
\* 150 bytes around it, parsed as a timestamp
ExtractTimestampFromContext16(data, offset) ==
    IF At(data, offset) # 144 THEN NoneValue
    ELSE LET timestamp_data == ContextValue(data, offset) IN
         IF ~timestamp_data.some THEN NoneValue
         ELSE Only({ IF decoded_timestamp.some THEN decoded_timestamp
                     ELSE Parse3gppTimestamp(Slice(data, Max(0, offset - 50),
                                                   Min(Len(data), offset + 100)))
                     : decoded_timestamp \in {Parse3gppTimestamp(timestamp_data.val)} })

\* scan_file lines 79-84: the hit entry of a timestamp
ExtractContext16Data(data, offset) ==
    LET extracted == ExtractTimestampFromContext16(data, offset)
    IN  IF extracted.some THEN Some([recordOpeningTime |-> extracted.val])
        ELSE NoneValue

\* scan_file lines 40, 55, 69 and 79: the extraction applied to a hit of tag
ExtractFrom(data, tag, offset) ==
    CASE tag = 131 -> ExtractFromContext3(data, offset)
      [] tag = 155 -> ExtractFromContext27(data, offset)
      [] tag = 149 -> ExtractFromContext21(data, offset)
      [] tag = 144 -> ExtractContext16Data(data, offset)

\* A variant in which the first candidate that fails ends the loop.
FoundEntriesUntilFailure(data, tag) ==
    Only({ [k \in 1..Len(kept) |->
               [offset |-> kept[k].offset, data |-> kept[k].extracted.val]]
           : kept \in
               { LET bad == { i \in DOMAIN c : ~c[i].extracted.some }
                 IN  IF bad = {} THEN c
                     ELSE SubSeq(c, 1, (CHOOSE i \in bad : \A j \in bad : i <= j) - 1)
                 : c \in { [i \in DOMAIN offsets |->
                               [offset    |-> offsets[i],
                                extracted |-> ExtractFrom(data, tag, offsets[i])]]
                           : offsets \in {FindContextTag(data, tag)} } } })

\* scan_file lines 38-44 (and 50-59, 65-73, 78-84): one entry
\* {'offset': o, 'data': extracted} per offset whose extraction is not empty
FoundEntries(data, tag) ==
    Only({ [k \in DOMAIN kept |->
               [offset |-> kept[k].offset, data |-> kept[k].extracted.val]]
           : kept \in
               { SelectSeq([i \in DOMAIN offsets |->
                               [offset    |-> offsets[i],
                                extracted |-> ExtractFrom(data, tag, offsets[i])]],
                           LAMBDA c : c.extracted.some)
                 : offsets \in {FindContextTag(data, tag)} } })

\* scan_file lines 89-115 (context_8) and 119-144 (context_9): the entry of a
\* hit holds the value under its own key next to 'offset'; it has no 'data'
LocationEntries(data, tag, key) ==
    Only({ [k \in DOMAIN kept |->
               ("offset" :> kept[k].offset)
               @@ (key :> IntFromBytes(kept[k].value.val))
               @@ (IF Len(kept[k].value.val) > 2
                   THEN (key \o "_first2bytes")
                            :> IntFromBytes(Slice(kept[k].value.val, 0, 2))
                   ELSE EmptyDict)]
           : kept \in
               { SelectSeq([i \in DOMAIN offsets |->
                               [offset |-> offsets[i],
                                value  |-> ContextValue(data, offsets[i])]],
                           LAMBDA c : c.value.some)
                 : offsets \in {FindContextTag(data, tag)} } })

\* lines 153-177: the distance (exclusive) within which scan_file combines hits
CombineDistance == 1000

\* lines 152-155: the data of the first entry of found within CombineDistance
\* of offset, or {}
NearbyData(found, offset) ==
    Only({ IF near = {} THEN EmptyDict
           ELSE found[CHOOSE i \in near : \A j \in near : i <= j].data
           : near \in {{ i \in DOMAIN found :
                           Abs(offset - found[i].offset) < CombineDistance }} })

\* lines 170-173: the same for a location list, whose value sits in the entry
NearbyValue(found, offset, key) ==
    Only({ IF near = {} THEN EmptyDict
           ELSE key :> found[CHOOSE i \in near : \A j \in near : i <= j][key]
           : near \in {{ i \in DOMAIN found :
                           Abs(offset - found[i].offset) < CombineDistance }} })

\* dict.update: the keys of new replace those of old
Update(old, new) == new @@ old

\* scan_file lines 147-181: one combined record per CONTEXT_21 hit
ExtractedData(ctx21, ctx3, ctx27, ctx16, ctx8, ctx9) ==
    [i \in DOMAIN ctx21 |->
        LET o  == ctx21[i]["offset"]
            r0 == Update("offset" :> o, ctx21[i].data)
            r1 == Update(r0, NearbyData(ctx3, o))
            r2 == Update(r1, NearbyData(ctx27, o))
            r3 == Update(r2, NearbyData(ctx16, o))
            r4 == Update(r3, NearbyValue(ctx8, o, "locationAreaCode"))
        IN  Update(r4, NearbyValue(ctx9, o, "cellIdentifier"))]

\* DirectBinaryParser.scan_file (fetch_missing_fields in sgsn_compiler.py)
ScanFile(filename, data) ==
    Only({ [filename         |-> filename,
            context_3_found  |-> ctx3,
            context_21_found |-> ctx21,
            context_27_found |-> ctx27,
            context_16_found |-> ctx16,
            extracted_data   |-> ExtractedData(ctx21, ctx3, ctx27, ctx16, ctx8, ctx9),
            context_8_found  |-> ctx8,
            context_9_found  |-> ctx9]
           : ctx3  \in {FoundEntries(data, 131)},
             ctx27 \in {FoundEntries(data, 155)},
             ctx21 \in {FoundEntries(data, 149)},
             ctx16 \in {FoundEntries(data, 144)},
             ctx8  \in {LocationEntries(data, 136, "locationAreaCode")},
             ctx9  \in {LocationEntries(data, 137, "cellIdentifier")} })

(***************************************************************************)
(* asn1/sgsn_compiler.py: iter_ber_elements                                *)
(***************************************************************************)

\* A variant that takes every tag for a single byte.
SkipTagNumberOneByte(data, i) == IF i < Len(data) THEN i + 1 ELSE i

\* lines 683-688: the position after a long-form tag number
RECURSIVE SkipTagNumber(_, _)
SkipTagNumber(data, i) ==
    IF i < Len(data) /\ At(data, i) >= 128 THEN SkipTagNumber(data, i + 1)
    ELSE IF i < Len(data) THEN i + 1
    ELSE i

\* A variant that leaves one byte between an element and the next.
RECURSIVE IterBerElementsApartFrom(_, _, _)
IterBerElementsApartFrom(data, i, yielded) ==
    LET L     == Len(data)
        start == i
        done  == [raised |-> FALSE, elems |-> yielded]
    IN
    IF ~(i < L) THEN done
    ELSE LET j == IF At(data, start) % 32 = 31 THEN SkipTagNumber(data, i + 1)
                  ELSE i + 1
         IN
         IF j >= L THEN done
         ELSE LET first_len == At(data, j)
                  num_bytes == first_len % 128
              IN
              IF first_len >= 128 /\ num_bytes = 0
              THEN [raised |-> TRUE, elems |-> yielded]
              ELSE IF first_len >= 128 /\ j + 1 + num_bytes > L THEN done
              ELSE LET k == IF first_len >= 128 THEN j + 1 + num_bytes ELSE j + 1
                       length == IF first_len >= 128
                                 THEN IntFromBytesCapped(Slice(data, j + 1, k), L + 1)
                                 ELSE first_len
                   IN  IF k + length > L THEN done
                       ELSE Only({ IterBerElementsApartFrom(data, next + 1,
                                       Append(yielded, Slice(data, start, next)))
                                   : next \in {k + length} })

\* iter_ber_elements from position i on: the elements yielded, and whether the
\* generator then raised ValueError (indefinite length form)
RECURSIVE IterBerElementsFrom(_, _, _)
IterBerElementsFrom(data, i, yielded) ==
    LET L     == Len(data)
        start == i
        done  == [raised |-> FALSE, elems |-> yielded]
    IN
    IF ~(i < L) THEN done
    ELSE LET j == IF At(data, start) % 32 = 31 THEN SkipTagNumber(data, i + 1)
                  ELSE i + 1
         IN
         IF j >= L THEN done
         ELSE LET first_len == At(data, j)
                  num_bytes == first_len % 128
              IN
              IF first_len >= 128 /\ num_bytes = 0
              THEN [raised |-> TRUE, elems |-> yielded]
              ELSE IF first_len >= 128 /\ j + 1 + num_bytes > L THEN done
              ELSE LET k == IF first_len >= 128 THEN j + 1 + num_bytes ELSE j + 1
                       length == IF first_len >= 128
                                 THEN IntFromBytesCapped(Slice(data, j + 1, k), L + 1)
                                 ELSE first_len
                   IN  IF k + length > L THEN done
                       ELSE Only({ IterBerElementsFrom(data, next,
                                       Append(yielded, Slice(data, start, next)))
                                   : next \in {k + length} })

\* list(iter_ber_elements(data))
IterBerElements(data) == IterBerElementsFrom(data, 0, <<>>)

\* iter_ber_elements from position i on, by the positions it reads: for every
\* yield, the local start and the end i + length of data[start:i+length]
RECURSIVE IterBerSpansFrom(_, _, _)
IterBerSpansFrom(data, i, spans) ==
    LET L     == Len(data)
        start == i
    IN
    IF ~(i < L) THEN spans
    ELSE LET j == IF At(data, start) % 32 = 31 THEN SkipTagNumber(data, i + 1)
                  ELSE i + 1
         IN
         IF j >= L THEN spans
         ELSE LET first_len == At(data, j)
                  num_bytes == first_len % 128
              IN
              IF first_len >= 128 /\ num_bytes = 0 THEN spans
              ELSE IF first_len >= 128 /\ j + 1 + num_bytes > L THEN spans
              ELSE LET k == IF first_len >= 128 THEN j + 1 + num_bytes ELSE j + 1
                       length == IF first_len >= 128
                                 THEN IntFromBytesCapped(Slice(data, j + 1, k), L + 1)
                                 ELSE first_len
                   IN  IF k + length > L THEN spans
                       ELSE Only({ IterBerSpansFrom(data, next,
                                       Append(spans, [start |-> start, end |-> next]))
                                   : next \in {k + length} })

\* the spans of the elements iter_ber_elements(data) yields
IterBerSpans(data) == IterBerSpansFrom(data, 0, <<>>)

(***************************************************************************)
(* sgsn_parsing.py: decode_raw_sgsn                                        *)
(***************************************************************************)

\* entry.get('data') or {}
EntryData(entry) == IF "data" \in DOMAIN entry THEN entry["data"] ELSE EmptyDict

\* line 47, arr.sort(key=offset): a stable sort; an element goes to the place
\* that counts the elements with a smaller offset and the earlier ones with
\* the same offset
SortByOffset(arr) ==
    Only({ LET place(i) == Cardinality({ j \in DOMAIN a :
                               \/ a[j][1] < a[i][1]
                               \/ a[j][1] = a[i][1] /\ j <= i })
           IN  [k \in DOMAIN a |-> a[CHOOSE i \in DOMAIN a : place(i) = k]]
           : a \in {arr} })

\* lines 38-53: for every list of missing_data, the offsets (sorted) and the
\* data dicts of its entries as two parallel arrays
BuildIndices(missing) ==
    [ctx_name \in DOMAIN missing \ {"filename", "error"} |->
        Only({ [offsets |-> [i \in DOMAIN arr |-> arr[i][1]],
                datas   |-> [i \in DOMAIN arr |-> arr[i][2]]]
               : arr \in
                   { SortByOffset([i \in DOMAIN lst |->
                                      <<lst[i]["offset"], EntryData(lst[i])>>])
                     : lst \in { SelectSeq(missing[ctx_name],
                                           LAMBDA entry : "offset" \in DOMAIN entry) } } })]

\* bisect.bisect_left(a, x, lo, hi)
RECURSIVE BisectLeft(_, _, _, _)
BisectLeft(a, x, lo, hi) ==
    IF lo < hi
    THEN LET mid == (lo + hi) \div 2
         IN  IF At(a, mid) < x THEN BisectLeft(a, x, mid + 1, hi)
             ELSE BisectLeft(a, x, lo, mid)
    ELSE lo

\* A variant that stops before the entries equal to x.
RECURSIVE BisectRightBeforeEqual(_, _, _, _)
BisectRightBeforeEqual(a, x, lo, hi) ==
    IF lo < hi
    THEN LET mid == (lo + hi) \div 2
         IN  IF At(a, mid) < x THEN BisectRightBeforeEqual(a, x, mid + 1, hi)
             ELSE BisectRightBeforeEqual(a, x, lo, mid)
    ELSE lo

\* bisect.bisect_right(a, x, lo, hi)
RECURSIVE BisectRight(_, _, _, _)
BisectRight(a, x, lo, hi) ==
    IF lo < hi
    THEN LET mid == (lo + hi) \div 2
         IN  IF x < At(a, mid) THEN BisectRight(a, x, lo, mid)
             ELSE BisectRight(a, x, mid + 1, hi)
    ELSE lo

\* A variant in which the values of a hit replace those of the record.
MergeDataOverwriting(mapped_record, data, key_map) ==
    IF key_map.some /\ key_map.val # EmptyDict
    THEN [dst \in { key_map.val[src] : src \in DOMAIN key_map.val \cap DOMAIN data } |->
             data[CHOOSE src \in DOMAIN key_map.val \cap DOMAIN data :
                      key_map.val[src] = dst]]
         @@ mapped_record
    ELSE data @@ mapped_record

\* lines 85-92 (and 68-75): the keys of data (renamed by key_map when one is
\* given) that mapped_record does not hold yet are added to it
MergeData(mapped_record, data, key_map) ==
    IF key_map.some /\ key_map.val # EmptyDict
    THEN mapped_record
         @@ [dst \in { key_map.val[src] : src \in DOMAIN key_map.val \cap DOMAIN data } |->
                data[CHOOSE src \in DOMAIN key_map.val \cap DOMAIN data :
                         key_map.val[src] = dst]]
    ELSE mapped_record @@ data

\* A variant that walks the hits in range from the last to the first.
RECURSIVE MergeRangeBackwards(_, _, _, _, _)
MergeRangeBackwards(mapped_record, datas, lo, hi, key_map) ==
    IF lo >= hi THEN mapped_record
    ELSE MergeRangeBackwards(MergeData(mapped_record, At(datas, hi - 1), key_map),
                             datas, lo, hi - 1, key_map)

\* lines 83-92: for i in range(lo, hi)
RECURSIVE MergeRange(_, _, _, _, _)
MergeRange(mapped_record, datas, lo, hi, key_map) ==
    IF lo >= hi THEN mapped_record
    ELSE MergeRange(MergeData(mapped_record, At(datas, lo), key_map),
                    datas, lo + 1, hi, key_map)

\* lines 61-76: the scan of the raw list, taken when there is no index
RECURSIVE MergeList(_, _, _, _, _)
MergeList(mapped_record, lst, prev_offset, key_map, max_distance) ==
    IF lst = <<>> THEN mapped_record
    ELSE LET entry == Head(lst)
             near  == /\ "offset" \in DOMAIN entry
                      /\ Abs(entry["offset"] - prev_offset) <= max_distance
         IN  MergeList(IF near THEN MergeData(mapped_record, EntryData(entry), key_map)
                       ELSE mapped_record,
                       Tail(lst), prev_offset, key_map, max_distance)

\* line 57: max_distance=1024, the default
DefaultMaxDistance == 1024

\* lines 120-121: max_distance=1024 for the location and cell lists
LocationMaxDistance == 1024

\* merge_ctx_index (lines 57-92): mapped_record after the call
MergeCtxIndex(idx, missing, ctx_name, prev_offset, mapped_record, key_map, max_distance) ==
    IF ctx_name \notin DOMAIN idx
    THEN MergeList(mapped_record,
                   IF ctx_name \in DOMAIN missing THEN missing[ctx_name] ELSE <<>>,
                   prev_offset, key_map, max_distance)
    ELSE LET offsets == idx[ctx_name].offsets
             datas   == idx[ctx_name].datas
         IN  IF offsets = <<>> THEN mapped_record
             ELSE LET lo == BisectLeft(offsets, prev_offset - max_distance,
                                       0, Len(offsets))
                      hi == BisectRight(offsets, prev_offset + max_distance,
                                        0, Len(offsets))
                  IN  MergeRange(mapped_record, datas, lo, hi, key_map)

\* lines 120-121: the key_map arguments
LocationKeyMap ==
    Some([locationAreaCode             |-> "locationAreaCode",
          locationAreaCode_first2bytes |-> "locationAreaCode_first2bytes"])

CellKeyMap ==
    Some([cellIdentifier             |-> "cellIdentifier",
          cellIdentifier_first2bytes |-> "cellIdentifier_first2bytes"])

\* lines 113-126: the six merges, in the order of the code
MergeAll(idx, missing, prev_offset, mapped_record) ==
    LET m1 == MergeCtxIndex(idx, missing, "context_27_found", prev_offset,
                            mapped_record, NoneValue, DefaultMaxDistance)
        m2 == MergeCtxIndex(idx, missing, "context_3_found", prev_offset,
                            m1, NoneValue, DefaultMaxDistance)
        m3 == MergeCtxIndex(idx, missing, "context_16_found", prev_offset,
                            m2, NoneValue, DefaultMaxDistance)
        m4 == MergeCtxIndex(idx, missing, "context_8_found", prev_offset,
                            m3, LocationKeyMap, LocationMaxDistance)
        m5 == MergeCtxIndex(idx, missing, "context_9_found", prev_offset,
                            m4, CellKeyMap, LocationMaxDistance)
    IN  MergeCtxIndex(idx, missing, "context_21_found", prev_offset,
                      m5, NoneValue, DefaultMaxDistance)

\* the file name main() passes when none is given
DefaultFilename == "nifi_input"

\* map_sgsn_record (sgsn_compiler.py) for a pretty-decoded record {record_type:
\* content} whose content has no listOfTrafficVolumes and no
\* chargingCharacteristics; "now" stands for the clock reading
MapSgsnRecord(record_type, content, filename) ==
    Update(content, [recordType             |-> record_type,
                     dataVolumeGPRSUplink   |-> 0,
                     dataVolumeGPRSDownlink |-> 0,
                     operator               |-> "Vodacom",
                     filename               |-> filename,
                     parsed_time            |-> "now"])

(***************************************************************************)
(* Inputs of decode_raw_sgsn: files of sgsnPDPRecord elements (tag 0xB4)   *)
(* whose content is a run of context-tagged fields                         *)
(***************************************************************************)
MsisdnA  == <<155, 3, 33, 67, 245>>                     \* 9B: TBCD 12345
MsisdnB  == <<155, 2, 118, 248>>                        \* 9B: TBCD 678
Imsi     == <<131, 2, 33, 243>>                         \* 83: TBCD 123
SeqNo    == <<149, 3, 2, 1, 7>>                         \* 95: INTEGER 7
OpenTime == <<144, 9, 36, 6, 25, 18, 0, 0, 43, 2, 0>>   \* 90: 24-06-19 12:00:00 +02:00
Lac      == <<136, 2, 18, 52>>                          \* 88: 0x1234
Cell     == <<137, 2, 86, 120>>                         \* 89: 0x5678
Trailer  == <<4, 6, 17, 17, 17, 17, 17, 17>>            \* OCTET STRING of 6 bytes

\* an OCTET STRING of n zero bytes, 256 <= n < 65536
Pad(n) == <<4, 130, n \div 256, n % 256>> \o [i \in 1..n |-> 0]

\* one top-level element holding the fields and the trailer
SgsnRecord(fields) == Def(180, Flatten(fields) \o Trailer)

\* The field runs of a record.  In a record that starts with Pad(n) the next
\* field lies 8 + n bytes after the record's start; a record <<f, Pad(n)>> with
\* a 5-byte field f ends 17 + n bytes after f.
RecordShapes ==
    { <<MsisdnA, Lac>>,
      <<Imsi, SeqNo, OpenTime, Cell, MsisdnB>>,
      <<Pad(1016), MsisdnB, Lac>>,        \* hits 1024 and 1028 bytes after the start
      <<Pad(1017), MsisdnB, Lac>>,        \* hits 1025 and 1029 bytes after the start
      <<MsisdnA, Pad(1007)>>,             \* hit 1024 bytes before the next record
      <<MsisdnA, Pad(1008)>> }            \* hit 1025 bytes before the next record

MaxRecs == 2

\* inputs that are not a run of complete records
OddFiles ==
    { <<>>,                                            \* an empty file
      <<180, 5, 1>>,                                   \* a truncated element
      <<180, 128, 0, 0>>,                              \* indefinite length
      SgsnRecord(<<MsisdnA, Lac>>) \o <<180, 128, 0, 0>>,
      SgsnRecord(<<MsisdnA, Lac>>) \o <<180, 5, 1>> }

SgsnFiles ==
    { Flatten([i \in DOMAIN shapes |-> SgsnRecord(shapes[i])]) :
        shapes \in SeqsUpTo(RecordShapes, MaxRecs) \ {<<>>} }
    \cup OddFiles

\* The contents the schema decoder may return for an element: no scanner key,
\* some of them, all of them.  The values differ from every value the scanner
\* finds in SgsnFiles.
SchemaContents ==
    { EmptyDict,
      [servedMSISDN |-> <<9, 9, 9>>, locationAreaCode |-> 9999],
      [servedIMSI |-> <<9, 9, 9>>, servedMSISDN |-> <<9, 9, 9>>,
       recordOpeningTime |-> <<1999, 1, 1, 0, 0, 0>>,
       locationAreaCode |-> 9999, cellIdentifier |-> 9999,
       localSequenceNumber |-> 999, recordSequenceNumber |-> 999,
       recordNodeId |-> <<9, 9>>] }

InitSgsn ==
    /\ raw_data \in SgsnFiles
    /\ sg_pc = "start"
    /\ missing_data = <<>>
    /\ indices = <<>>
    /\ raw_records = <<>>
    /\ sg_offset = 0
    /\ records = <<>>
    /\ printed = <<>>
    /\ decoded_log = <<>>
    /\ sg_failed = 0
    /\ MscIdle
    /\ ConvIdle
    /\ FnIdle

\* lines 27-94: scan the buffer, index the hits, split the buffer
SgPrepare ==
    /\ sg_pc = "start"
    /\ \E missing \in {ScanFile(DefaultFilename, raw_data)},
          split \in {IterBerElements(raw_data)} :
           /\ missing_data' = missing
           /\ indices' = BuildIndices(missing)
           /\ IF split.raised
              THEN /\ sg_pc' = "exit"              \* ValueError: lines 150-153
                   /\ UNCHANGED raw_records
              ELSE /\ sg_pc' = "loop"
                   /\ raw_records' = split.elems
    /\ UNCHANGED <<raw_data, sg_offset, records, printed, decoded_log, sg_failed>>
    /\ UNCHANGED nonSgsnVars

\* lines 95-131: one iteration of `for chunk in raw_records` in which the
\* schema decoder returns a record
SgDecodeChunk ==
    /\ sg_pc = "loop"
    /\ Len(decoded_log) < Len(raw_records)
    /\ \E content \in SchemaContents :
         LET chunk         == raw_records[Len(decoded_log) + 1]
             prev_offset   == sg_offset
             mapped_record == MapSgsnRecord("sgsnPDPRecord", content, DefaultFilename)
         IN  /\ sg_offset' = sg_offset + Len(chunk)
             /\ records' = Append(records,
                                  MergeAll(indices, missing_data, prev_offset,
                                           mapped_record))
             /\ decoded_log' = Append(decoded_log,
                                      [prev_offset |-> prev_offset,
                                       mapped_record |-> mapped_record])
    /\ UNCHANGED <<raw_data, sg_pc, missing_data, indices, raw_records, printed,
                   sg_failed>>
    /\ UNCHANGED nonSgsnVars

\* lines 98-101 and 150-153: decode_sgsn_file raises on the chunk; the
\* exception is re-raised, caught by the outer handler, and the process exits
\* with status 1 before any record is printed
SgDecodeFails ==
    /\ sg_pc = "loop"
    /\ Len(decoded_log) < Len(raw_records)
    /\ sg_offset' = sg_offset + Len(raw_records[Len(decoded_log) + 1])
    /\ sg_failed' = Len(decoded_log) + 1
    /\ sg_pc' = "exit"
    /\ UNCHANGED <<raw_data, missing_data, indices, raw_records, records, printed,
                   decoded_log>>
    /\ UNCHANGED nonSgsnVars

\* lines 132-138 and 150-153: no element was found; the whole buffer is given
\* to the decoder, which raises, or else map_sgsn_record(pretty) raises
\* TypeError for its missing filename argument
SgFallback ==
    /\ sg_pc = "loop"
    /\ Len(decoded_log) = Len(raw_records)
    /\ records = <<>>
    /\ sg_pc' = "exit"
    /\ UNCHANGED <<raw_data, missing_data, indices, raw_records, sg_offset, records,
                   printed, decoded_log, sg_failed>>
    /\ UNCHANGED nonSgsnVars

\* lines 139-141: print every record
SgPrintRecords ==
    /\ sg_pc = "loop"
    /\ Len(decoded_log) = Len(raw_records)
    /\ records # <<>>
    /\ printed' = records
    /\ sg_pc' = "done"
    /\ UNCHANGED <<raw_data, missing_data, indices, raw_records, sg_offset, records,
                   decoded_log, sg_failed>>
    /\ UNCHANGED nonSgsnVars

NextSgsn ==
    \/ SgPrepare
    \/ SgDecodeChunk
    \/ SgDecodeFails
    \/ SgFallback
    \/ SgPrintRecords

SpecSgsn == InitSgsn /\ [][NextSgsn]_vars

(***************************************************************************)
(* Properties of decode_raw_sgsn.  decoded_log[i] keeps, for the i-th      *)
(* record, the start offset of its element and the record as               *)
(* map_sgsn_record returned it, before any merge.                          *)
(***************************************************************************)
MergeCategories ==
    {"context_27_found", "context_3_found", "context_16_found",
     "context_8_found", "context_9_found", "context_21_found"}

NonLocationCategories ==
    {"context_27_found", "context_3_found", "context_16_found", "context_21_found"}

\* the hits of a category whose offset lies within `window` of prev_offset
HitsWithin(ctx_name, prev_offset, window) ==
    { j \in DOMAIN missing_data[ctx_name] :
        Abs(missing_data[ctx_name][j]["offset"] - prev_offset) <= window }

\* those of them whose field map holds K
Carriers(ctx_name, prev_offset, K, window) ==
    { j \in HitsWithin(ctx_name, prev_offset, window) :
        K \in DOMAIN EntryData(missing_data[ctx_name][j]) }

\* the hit of S with the lowest offset
LowestOffset(ctx_name, S) ==
    CHOOSE j \in S : \A k \in S :
        missing_data[ctx_name][j]["offset"] <= missing_data[ctx_name][k]["offset"]

\* C1: every key the record holds before the merges keeps its value through
\* the six merges, whatever hits lie in range.
C1_AdditiveOnly ==
    \A i \in DOMAIN records :
        \A K \in DOMAIN decoded_log[i].mapped_record :
            /\ K \in DOMAIN records[i]
            /\ records[i][K] = decoded_log[i].mapped_record[K]

\* a record whose schema-decoded servedMSISDN differs from the servedMSISDN of
\* a context_27 hit in range has been merged
C1_SchemaValueMeetsHit ==
    \E i \in DOMAIN records :
        /\ "servedMSISDN" \in DOMAIN decoded_log[i].mapped_record
        /\ \E j \in Carriers("context_27_found", decoded_log[i].prev_offset,
                             "servedMSISDN", 1024) :
               missing_data["context_27_found"][j].data["servedMSISDN"]
                   # decoded_log[i].mapped_record["servedMSISDN"]

\* C5: a key K the schema-decoded record lacks, carried by one or more hits of
\* a category within max_distance (1024) of the record's start, ends up in the
\* record with the value of the lowest-offset such hit.
C5_FirstInRangeWins ==
    \A i \in DOMAIN records : \A ctx_name \in MergeCategories :
        \A j \in HitsWithin(ctx_name, decoded_log[i].prev_offset, 1024) :
            \A K \in DOMAIN EntryData(missing_data[ctx_name][j])
                        \ DOMAIN decoded_log[i].mapped_record :
                /\ K \in DOMAIN records[i]
                /\ records[i][K] =
                     EntryData(missing_data[ctx_name][
                         LowestOffset(ctx_name,
                             Carriers(ctx_name, decoded_log[i].prev_offset, K, 1024))])[K]

\* two context_27 hits with different servedMSISDN values lie in range of a
\* record that lacked the key; the record holds the value of the lower one
C5_TwoHitsInRange ==
    \E i \in DOMAIN records :
        /\ "servedMSISDN" \notin DOMAIN decoded_log[i].mapped_record
        /\ \E j, k \in Carriers("context_27_found", decoded_log[i].prev_offset,
                                "servedMSISDN", 1024) :
               /\ missing_data["context_27_found"][j]["offset"]
                    < missing_data["context_27_found"][k]["offset"]
               /\ missing_data["context_27_found"][j].data["servedMSISDN"]
                    # missing_data["context_27_found"][k].data["servedMSISDN"]
               /\ records[i]["servedMSISDN"]
                    = missing_data["context_27_found"][j].data["servedMSISDN"]

\* the first hit of a list within 1024 bytes of prev_offset
FirstHitWithin(ctx_name, prev_offset) ==
    CHOOSE j \in HitsWithin(ctx_name, prev_offset, 1024) :
        \A k \in HitsWithin(ctx_name, prev_offset, 1024) : j <= k

\* `key` of the i-th record comes from the first hit of ctx_name in range
\* whenever the schema-decoded record lacks it and there is such a hit
MergedFromFirstHit(i, ctx_name, key) ==
    (/\ key \notin DOMAIN decoded_log[i].mapped_record
     /\ HitsWithin(ctx_name, decoded_log[i].prev_offset, 1024) # {})
    => /\ key \in DOMAIN records[i]
       /\ records[i][key] =
            missing_data[ctx_name][
                FirstHitWithin(ctx_name, decoded_log[i].prev_offset)][key]

\* C6: a record that lacks locationAreaCode (cellIdentifier) and has a
\* context_8 (context_9) hit within 1024 bytes of its start holds the value of
\* the first such hit after the merges.
C6_LocationAndCellMerged ==
    \A i \in DOMAIN records :
        /\ MergedFromFirstHit(i, "context_8_found", "locationAreaCode")
        /\ MergedFromFirstHit(i, "context_9_found", "cellIdentifier")

\* C7: a key that a merge of a non-location category added to a record has the
\* value of a hit of that category at most 1000 bytes from the record's start.
C7_NonLocationWindowIs1000 ==
    \A i \in DOMAIN records : \A ctx_name \in NonLocationCategories :
        \A j \in DOMAIN missing_data[ctx_name] :
            \A K \in (DOMAIN EntryData(missing_data[ctx_name][j])
                        \cap DOMAIN records[i])
                     \ DOMAIN decoded_log[i].mapped_record :
                \E k \in Carriers(ctx_name, decoded_log[i].prev_offset, K, 1000) :
                    EntryData(missing_data[ctx_name][k])[K] = records[i][K]

\* C10: when the schema decoder has failed on one element of a buffer of two
\* or more and the run is over, the records of the other elements have been
\* produced.
C10_SchemaFailureIsolated ==
    (/\ sg_failed # 0
     /\ Len(raw_records) >= 2
     /\ sg_pc \in {"done", "exit"})
    => Len(printed) = Len(raw_records) - 1

(***************************************************************************)
(* The TLV primitives applied to one buffer: iter_ber_elements             *)
(* (asn1/sgsn_compiler.py) and get_ber_tlv_length (asn1/utils.py)          *)
(***************************************************************************)

\* A variant that leaves the long-form length octets out of the total.
UtilsGetBerTlvLengthValueOnly(data) ==
    IF Len(data) < 2 THEN [ok |-> FALSE, len |-> 0]
    ELSE LET length_octet == At(data, 1) IN
         IF length_octet < 128 THEN [ok |-> TRUE, len |-> 2 + length_octet]
         ELSE LET num_length_octets == length_octet % 128 IN
              IF num_length_octets = 0 THEN [ok |-> FALSE, len |-> 0]
              ELSE IF Len(data) < 2 + num_length_octets THEN [ok |-> FALSE, len |-> 0]
              ELSE [ok |-> TRUE,
                    len |-> 2 + IntFromBytes(Slice(data, 2, 2 + num_length_octets))]

\* utils.get_ber_tlv_length: ok = FALSE stands for the ValueError it raises
UtilsGetBerTlvLength(data) ==
    IF Len(data) < 2 THEN [ok |-> FALSE, len |-> 0]
    ELSE LET length_octet == At(data, 1) IN
         IF length_octet < 128 THEN [ok |-> TRUE, len |-> 2 + length_octet]
         ELSE LET num_length_octets == length_octet % 128 IN
              IF num_length_octets = 0 THEN [ok |-> FALSE, len |-> 0]
              ELSE IF Len(data) < 2 + num_length_octets THEN [ok |-> FALSE, len |-> 0]
              ELSE [ok |-> TRUE,
                    len |-> 2 + num_length_octets
                            + IntFromBytes(Slice(data, 2, 2 + num_length_octets))]

\* Arbitrary buffers: every byte string of up to MaxBuf bytes over TlvBytes.
MaxBuf == 4

TlvBytes == {0, 1, 2, 31, 128, 129, 160}    \* 31 = 0x1F, a long-form tag number

TlvBuffers == SeqsUpTo(TlvBytes, MaxBuf)

\* Built buffers: one definite-length element with a single-byte tag, its
\* length in short form or in long form on 1 to 3 octets, then trailing bytes.
ContentLengths == {0, 1, 127, 128, 255, 256}

ElementTags == {4, 180}

Content(n) == [i \in 1..n |-> 85]

\* the length octets of n: short form for octets = 0, else long form on that
\* many octets
LengthOctets(n, octets) ==
    IF octets = 0 THEN <<n>>
    ELSE <<128 + octets>> \o [i \in 1..octets |-> (n \div (256 ^ (octets - i))) % 256]

\* the ways to write n
OctetCounts(n) == { k \in 0..3 : IF k = 0 THEN n < 128 ELSE n < 256 ^ k }

BuiltElement(tag, n, octets) == <<tag>> \o LengthOctets(n, octets) \o Content(n)

TrailingBytes ==
    { <<>>, <<0>>, <<2, 1, 5>>, <<160, 128>>, <<4, 5, 1>> }

\* what a buffer was built from; NotBuilt for an arbitrary buffer
NotBuilt == [elem |-> <<>>, length |-> 0, octets |-> 0]

InitTlv ==
    /\ \/ /\ raw_data \in TlvBuffers
          /\ given = NotBuilt
       \/ \E tag \in ElementTags, n \in ContentLengths, rest \in TrailingBytes :
            \E octets \in OctetCounts(n) :
              /\ raw_data = BuiltElement(tag, n, octets) \o rest
              /\ given = [elem |-> BuiltElement(tag, n, octets), length |-> n,
                          octets |-> Len(LengthOctets(n, octets))]
    /\ fn_called = "ready"
    /\ fn_result = <<>>
    /\ MscIdle
    /\ ConvIdle
    /\ SgsnIdle

\* one call list(iter_ber_elements(raw_data)); the elements yielded before a
\* ValueError are kept in the result
IterBerElementsCall ==
    /\ fn_called = "ready"
    /\ fn_called' = "iter_ber_elements"
    /\ fn_result' = IterBerElements(raw_data)
    /\ UNCHANGED <<raw_data, given>>
    /\ UNCHANGED nonFnVars

\* one call get_ber_tlv_length(raw_data)
GetBerTlvLengthCall ==
    /\ fn_called = "ready"
    /\ fn_called' = "get_ber_tlv_length"
    /\ fn_result' = UtilsGetBerTlvLength(raw_data)
    /\ UNCHANGED <<raw_data, given>>
    /\ UNCHANGED nonFnVars

NextTlv ==
    \/ IterBerElementsCall
    \/ GetBerTlvLengthCall

SpecTlv == InitTlv /\ [][NextTlv]_vars

(***************************************************************************)
(* Properties of the TLV primitives                                        *)
(***************************************************************************)

\* the number of tag bytes at the start of d: one, or for tag number 0x1F the
\* bytes up to and including the first later byte below 0x80
TagOctets(d) ==
    IF d[1] % 32 # 31 THEN 1
    ELSE LET ends == { p \in 2..Len(d) : d[p] < 128 }
         IN  IF ends = {} THEN Len(d)
             ELSE CHOOSE p \in ends : \A q \in ends : p <= q

\* what stands at the start of d: a complete element of `span` bytes, an
\* element of indefinite length, or neither
Leading(d) ==
    IF d = <<>> \/ TagOctets(d) >= Len(d) THEN [kind |-> "incomplete", span |-> 0]
    ELSE LET t     == TagOctets(d)
             first == d[t + 1]
             k     == IF first < 128 THEN 0 ELSE first - 128
         IN  IF first = 128 THEN [kind |-> "indefinite", span |-> 0]
             ELSE IF t + 1 + k > Len(d) THEN [kind |-> "incomplete", span |-> 0]
             ELSE LET n == IF first < 128 THEN first
                           ELSE IntFromBytes(SubSeq(d, t + 2, t + 1 + k))
                  IN  IF t + 1 + k + n > Len(d)
                      THEN [kind |-> "incomplete", span |-> 0]
                      ELSE [kind |-> "element", span |-> t + 1 + k + n]

IterCalled == fn_called = "iter_ber_elements"

\* the yielded elements are the complete elements at the start of raw_data,
\* one after the other, and no complete element follows them
YieldsLeadingElements ==
    LET elems == fn_result.elems
        start(i) == Len(Flatten(SubSeq(elems, 1, i - 1)))
    IN  /\ Flatten(elems) = SubSeq(raw_data, 1, Len(Flatten(elems)))
        /\ \A i \in DOMAIN elems :
               Leading(SliceFrom(raw_data, start(i)))
                   = [kind |-> "element", span |-> Len(elems[i])]
        /\ Leading(SliceFrom(raw_data, Len(Flatten(elems)))).kind # "element"

\* C11 as stated: on every buffer, one with a length octet 0x80 included,
\* iter_ber_elements raises nothing, yields every complete leading element and
\* stops silently where no complete element follows.
C11_NeverFails ==
    IterCalled => (~fn_result.raised /\ YieldsLeadingElements)

\* C11 as amended: iter_ber_elements yields every complete leading element;
\* it raises ValueError exactly when the element it arrives at after them has
\* the length octet 0x80, and stops silently otherwise.
C11_FailsOnlyOnIndefinite ==
    IterCalled =>
        /\ YieldsLeadingElements
        /\ fn_result.raised <=>
               Leading(SliceFrom(raw_data, Len(Flatten(fn_result.elems)))).kind
                   = "indefinite"

\* one element was yielded before the ValueError of an indefinite length
C11_RaisedAfterYield ==
    /\ IterCalled
    /\ raw_data = <<2, 0, 160, 128>>
    /\ fn_result.raised
    /\ fn_result.elems = << <<2, 0>> >>

\* C12 (TLV round trip): for a buffer E \o R, E a definite-length element
\* with a single-byte tag and R arbitrary, iter_ber_elements yields E first
\* and get_ber_tlv_length returns len(E) = 1 + length octets + declared
\* length, whichever form the length is written in.
C12_RoundTrip ==
    given.elem # <<>> =>
        /\ IterCalled =>
               /\ fn_result.elems # <<>>
               /\ fn_result.elems[1] = given.elem
        /\ fn_called = "get_ber_tlv_length" =>
               /\ fn_result.ok
               /\ fn_result.len = Len(given.elem)
               /\ fn_result.len = 1 + given.octets + given.length

\* the length 127 written on two long-form octets was read back
C12_LongFormOfShortLength ==
    /\ fn_called = "get_ber_tlv_length"
    /\ given.length = 127
    /\ given.octets = 3
    /\ raw_data = given.elem \o <<2, 1, 5>>
    /\ fn_result.len = 131

(***************************************************************************)
(* DirectBinaryParser.scan_file applied to one buffer                      *)
(***************************************************************************)

\* A buffer is a run of pieces.  A piece is a field, a candidate whose
\* extraction fails, or filler; `category` names the list its hit goes to
\* ("none" for filler), `entry` is the hit without its offset (meaningless
\* where extracts is FALSE), `needs10` tells that the extractor of the
\* category wants 10 bytes from the offset on (lines 225, 338, 382).
Piece(bytes, category, entry, needs10, extracts) ==
    [bytes |-> bytes, category |-> category, entry |-> entry,
     needs10 |-> needs10, extracts |-> extracts]

MsisdnLong == <<155, 129, 2, 33, 67>>        \* 9B, long-form length: TBCD 1234
EmptyMsisdn == <<155, 1, 255>>               \* 9B: filler nibbles only
EmptyImsi   == <<131, 1, 255>>               \* 83: filler nibbles only

ScanPieces ==
    { Piece(MsisdnA, "context_27_found",
            [data |-> [servedMSISDN |-> <<1, 2, 3, 4, 5>>]], TRUE, TRUE),
      Piece(MsisdnB, "context_27_found",
            [data |-> [servedMSISDN |-> <<6, 7, 8>>]], TRUE, TRUE),
      Piece(MsisdnLong, "context_27_found",
            [data |-> [servedMSISDN |-> <<1, 2, 3, 4>>]], TRUE, TRUE),
      Piece(Imsi, "context_3_found",
            [data |-> [servedIMSI |-> <<1, 2, 3>>]], TRUE, TRUE),
      Piece(SeqNo, "context_21_found",
            [data |-> [localSequenceNumber |-> 7, recordSequenceNumber |-> 7]],
            TRUE, TRUE),
      Piece(OpenTime, "context_16_found",
            [data |-> [recordOpeningTime |-> <<2024, 6, 19, 10, 0, 0>>]],
            FALSE, TRUE),
      Piece(Lac, "context_8_found", [locationAreaCode |-> 4660], FALSE, TRUE),
      Piece(EmptyMsisdn, "context_27_found", EmptyDict, TRUE, FALSE),
      Piece(EmptyImsi, "context_3_found", EmptyDict, TRUE, FALSE),
      Piece(Trailer, "none", EmptyDict, FALSE, FALSE) }

MaxPieces == 3

InitScan ==
    /\ given \in SeqsUpTo(ScanPieces, MaxPieces)
    /\ raw_data = Flatten([i \in DOMAIN given |-> given[i].bytes])
    /\ fn_called = "ready"
    /\ fn_result = <<>>
    /\ MscIdle
    /\ ConvIdle
    /\ SgsnIdle

\* one call DirectBinaryParser().scan_file(filename, raw_data)
ScanFileCall ==
    /\ fn_called = "ready"
    /\ fn_called' = "scan_file"
    /\ fn_result' = ScanFile(DefaultFilename, raw_data)
    /\ UNCHANGED <<raw_data, given>>
    /\ UNCHANGED nonFnVars

NextScan == ScanFileCall

SpecScan == InitScan /\ [][NextScan]_vars

(***************************************************************************)
(* Properties of scan_file                                                 *)
(***************************************************************************)
ScanCalled == fn_called = "scan_file"

\* the offset of the i-th piece in raw_data
PieceOffset(i) == Len(Flatten([j \in 1..(i - 1) |-> given[j].bytes]))

\* the pieces that are well-formed occurrences of tag 0x9B
MsisdnPieces ==
    { i \in DOMAIN given :
        given[i].category = "context_27_found" /\ given[i].extracts }

\* the hit a piece stands for
HitOf(i) == ("offset" :> PieceOffset(i)) @@ given[i].entry

\* the i-th and j-th piece are the two occurrences of 0x9B in the buffer
TwoOccurrences(i, j) ==
    /\ i < j
    /\ MsisdnPieces = {i, j}
    /\ \A k \in DOMAIN given : given[k].bytes[1] = 155 => k \in {i, j}

\* C14 (each occurrence reported once): the hit offsets of every category
\* are strictly increasing, and a buffer with exactly two well-formed
\* occurrences of tag 0x9B gives exactly two context_27 hits, at their
\* offsets, each with the digits of its own payload.
C14_EachOccurrenceOnce ==
    ScanCalled =>
        /\ \A ctx_name \in MergeCategories :
               \A a, b \in DOMAIN fn_result[ctx_name] :
                   a < b => fn_result[ctx_name][a]["offset"]
                              < fn_result[ctx_name][b]["offset"]
        /\ \A i, j \in DOMAIN given :
               TwoOccurrences(i, j) =>
                   fn_result["context_27_found"] = <<HitOf(i), HitOf(j)>>

\* C15 (scanner failures are isolated): scan_file returns its result and no
\* error; every field of the buffer whose extractor has the bytes it wants is
\* a hit of its category at its offset, with its value, whatever candidates
\* fail elsewhere in the buffer; a candidate whose extraction fails is no hit.
C15_FailuresIsolated ==
    ScanCalled =>
        /\ "error" \notin DOMAIN fn_result
        /\ \A i \in DOMAIN given :
               given[i].category # "none" =>
                   LET hits == fn_result[given[i].category]
                       here == { k \in DOMAIN hits :
                                   hits[k]["offset"] = PieceOffset(i) }
                   IN  IF /\ given[i].extracts
                          /\ given[i].needs10 =>
                                 PieceOffset(i) + 10 <= Len(raw_data)
                       THEN \E k \in here : hits[k] = HitOf(i)
                       ELSE here = {}

\* a context_27 candidate without digits was dropped; the context_27 hit
\* after it and the hit of another category were returned
C15_DroppedBeforeHits ==
    /\ ScanCalled
    /\ raw_data = EmptyMsisdn \o MsisdnA \o OpenTime
    /\ fn_result["context_27_found"]
         = << [offset |-> 3, data |-> [servedMSISDN |-> <<1, 2, 3, 4, 5>>]] >>
    /\ fn_result["context_16_found"]
         = << [offset |-> 8,
               data |-> [recordOpeningTime |-> <<2024, 6, 19, 10, 0, 0>>]] >>

(***************************************************************************)
(* asn1/tap_compiler.py: decode_tbcd, and asn1/sgsn_compiler.py:           *)
(* _tbcd_to_digits.  A character that is no decimal digit is its code      *)
(* point: '*' = 42, '#' = 35, 'a' = 97, 'b' = 98, 'c' = 99.                *)
(***************************************************************************)

\* result.startswith(prefix)
StartsWith(result, prefix) ==
    Len(result) >= Len(prefix) /\ SubSeq(result, 1, Len(prefix)) = prefix

\* tap_compiler.decode_tbcd on bytes: the loop of lines 387-397 breaks at the
\* first filler nibble; lines 401-409 then take a leading 91, 1 or 44 off a
\* result of more than 10 characters
TapDecodeTbcd(tbcd_data) ==
    LET lsb(i) == tbcd_data[i] % 16
        msb(i) == tbcd_data[i] \div 16
        fillers == { i \in DOMAIN tbcd_data : lsb(i) = 15 \/ msb(i) = 15 }
        last == IF fillers = {} THEN Len(tbcd_data)
                ELSE CHOOSE i \in fillers : \A j \in fillers : i <= j
        result == Flatten([i \in 1..last |->
                              IF lsb(i) = 15 THEN <<>>
                              ELSE IF msb(i) = 15 THEN StrOfNibble(lsb(i))
                              ELSE StrOfNibble(lsb(i)) \o StrOfNibble(msb(i))])
    IN  IF StartsWith(result, <<9, 1>>) /\ Len(result) > 10
        THEN SubSeq(result, 3, Len(result))
        ELSE IF StartsWith(result, <<1>>) /\ Len(result) > 10
        THEN SubSeq(result, 2, Len(result))
        ELSE IF StartsWith(result, <<4, 4>>) /\ Len(result) > 10
        THEN SubSeq(result, 3, Len(result))
        ELSE result

\* sgsn_compiler._tbcd_to_digits lines 264-281: the character of a nibble
CharOfNibble(nib) ==
    IF nib = 15 THEN <<>>
    ELSE IF nib <= 9 THEN <<nib>>
    ELSE IF nib = 10 THEN <<42>>
    ELSE IF nib = 11 THEN <<35>>
    ELSE IF nib = 12 THEN <<97>>
    ELSE IF nib = 13 THEN <<98>>
    ELSE <<99>>

\* sgsn_compiler._tbcd_to_digits: low then high nibble of every octet, the
\* fillers left out
TbcdToDigits(b) ==
    Flatten([i \in DOMAIN b |-> CharOfNibble(b[i] % 16) \o CharOfNibble(b[i] \div 16)])

(***************************************************************************)
(* The BCD codecs applied to one byte string: utils.decode_tbcd,           *)
(* msc_compiler.decode_tbcd / decode_bcd, tap_compiler.decode_tbcd,        *)
(* sgsn_compiler._tbcd_to_digits and DirectBinaryParser._decode_tbcd       *)
(***************************************************************************)

\* the T-BCD encoding of a digit string: two digits a byte, the first in the
\* low nibble; the filler 0xF in the last high nibble of an odd-length string
EncodeTbcd(digits) ==
    [i \in 1..((Len(digits) + 1) \div 2) |->
        (IF 2 * i <= Len(digits) THEN digits[2 * i] ELSE 15) * 16 + digits[2 * i - 1]]

MaxDigits == 3       \* length of a digit string
MaxNibbleBytes == 3  \* length of an arbitrary byte string

DigitStrings ==
    SeqsUpTo(0..9, MaxDigits)
    \cup { <<1, 2, 3, 4, 5, 6, 7, 8, 9, 0, 1, 2, 3, 4, 5>>,
           <<9, 1, 2, 4, 3, 9, 0, 4, 3, 4, 9, 0>>,      \* 12 digits, leading 91
           <<4, 4, 2, 0, 7, 9, 4, 6, 0, 9, 5, 8>>,      \* 12 digits, leading 44
           <<9, 1, 2, 4, 3, 9, 0, 4, 3, 4>>,            \* 10 digits, leading 91
           <<2, 7, 8, 2, 5, 5, 5, 0, 1, 2, 3>> }        \* 11 digits

\* bytes whose nibbles are a digit, a value above 9 or the filler
NibbleBytes == { high * 16 + low : high \in {1, 10, 15}, low \in {1, 10, 15} }

InitBcd ==
    /\ \/ \E digits \in DigitStrings :
            /\ raw_data = EncodeTbcd(digits)
            /\ given = [built |-> TRUE, digits |-> digits]
       \/ /\ raw_data \in SeqsUpTo(NibbleBytes, MaxNibbleBytes)
          /\ given = [built |-> FALSE, digits |-> <<>>]
    /\ fn_called = "ready"
    /\ fn_result = <<>>
    /\ MscIdle
    /\ ConvIdle
    /\ SgsnIdle

\* one call utils.decode_tbcd(raw_data)
UtilsDecodeTbcdCall ==
    /\ fn_called = "ready"
    /\ fn_called' = "utils.decode_tbcd"
    /\ fn_result' = DecodeTbcd(raw_data)
    /\ UNCHANGED <<raw_data, given>>
    /\ UNCHANGED nonFnVars

\* one call msc_compiler.decode_tbcd(raw_data)
MscDecodeTbcdCall ==
    /\ fn_called = "ready"
    /\ fn_called' = "msc_compiler.decode_tbcd"
    /\ fn_result' = MscDecodeTbcd(raw_data)
    /\ UNCHANGED <<raw_data, given>>
    /\ UNCHANGED nonFnVars

\* one call msc_compiler.decode_bcd(raw_data)
MscDecodeBcdCall ==
    /\ fn_called = "ready"
    /\ fn_called' = "msc_compiler.decode_bcd"
    /\ fn_result' = MscDecodeBcd(raw_data)
    /\ UNCHANGED <<raw_data, given>>
    /\ UNCHANGED nonFnVars

\* one call tap_compiler.decode_tbcd(raw_data)
TapDecodeTbcdCall ==
    /\ fn_called = "ready"
    /\ fn_called' = "tap_compiler.decode_tbcd"
    /\ fn_result' = TapDecodeTbcd(raw_data)
    /\ UNCHANGED <<raw_data, given>>
    /\ UNCHANGED nonFnVars

\* one call sgsn_compiler._tbcd_to_digits(raw_data)
TbcdToDigitsCall ==
    /\ fn_called = "ready"
    /\ fn_called' = "_tbcd_to_digits"
    /\ fn_result' = TbcdToDigits(raw_data)
    /\ UNCHANGED <<raw_data, given>>
    /\ UNCHANGED nonFnVars

\* one call DirectBinaryParser._decode_tbcd(raw_data); the result is None or
\* a string
ParserDecodeTbcdCall ==
    /\ fn_called = "ready"
    /\ fn_called' = "DirectBinaryParser._decode_tbcd"
    /\ fn_result' = ParserDecodeTbcd(raw_data)
    /\ UNCHANGED <<raw_data, given>>
    /\ UNCHANGED nonFnVars

NextBcd ==
    \/ UtilsDecodeTbcdCall
    \/ MscDecodeTbcdCall
    \/ MscDecodeBcdCall
    \/ TapDecodeTbcdCall
    \/ TbcdToDigitsCall
    \/ ParserDecodeTbcdCall

SpecBcd == InitBcd /\ [][NextBcd]_vars

(***************************************************************************)
(* Properties of the BCD codecs                                            *)
(***************************************************************************)
TbcdCalled == fn_called \in {"utils.decode_tbcd", "msc_compiler.decode_tbcd"}

\* C16 (TBCD round trip): decoding the T-BCD encoding of a digit string, of
\* even or odd length, gives back the digit string.
C16_TbcdRoundTrip ==
    (TbcdCalled /\ given.built) => fn_result = given.digits

\* the 15 digits 123456789012345, encoded with a filler, were decoded
C16_FifteenDigits ==
    /\ TbcdCalled
    /\ raw_data = <<33, 67, 101, 135, 9, 33, 67, 245>>
    /\ fn_result = <<1, 2, 3, 4, 5, 6, 7, 8, 9, 0, 1, 2, 3, 4, 5>>

\* the nibbles of data in the order the codec reads them
NibblesInOrder(data, low_first) ==
    [k \in 1..(2 * Len(data)) |->
        IF (k % 2 = 1) = low_first THEN data[(k + 1) \div 2] % 16
        ELSE data[(k + 1) \div 2] \div 16]

\* the nibbles before the first filler
BeforeFiller(nibbles) ==
    LET fillers == { k \in DOMAIN nibbles : nibbles[k] = 15 }
    IN  IF fillers = {} THEN nibbles
        ELSE SubSeq(nibbles, 1, (CHOOSE k \in fillers : \A j \in fillers : k <= j) - 1)

\* C17 (the filler ends decoding): the output is made of the nibbles before
\* the first 0xF in reading order (low then high for T-BCD, high then low for
\* plain BCD), each spelled as str() spells it, and of nothing else.
C17_FillerTerminates ==
    fn_called \in {"utils.decode_tbcd", "msc_compiler.decode_tbcd",
                   "msc_compiler.decode_bcd"} =>
        LET kept == BeforeFiller(NibblesInOrder(raw_data,
                                                fn_called # "msc_compiler.decode_bcd"))
        IN  fn_result = Flatten([k \in DOMAIN kept |-> StrOfNibble(kept[k])])

\* plain BCD: the filler in the high nibble of the first byte ended the
\* decoding before any nibble was kept
C17_FillerFirst ==
    /\ fn_called = "msc_compiler.decode_bcd"
    /\ raw_data = <<241, 17>>
    /\ fn_result = <<>>

(***************************************************************************)
(* utils.parse_3gpp_timestamp applied to one 9-byte timestamp with a zone  *)
(***************************************************************************)

\* the byte that holds the two decimal digits of n, one a nibble
BcdByte(n) == (n \div 10) * 16 + (n % 10)

\* the year that the two digits yy stand for (the pivot of %y)
FullYear(yy) == IF yy < 69 THEN 2000 + yy ELSE 1900 + yy

\* local times YYMMDDhhmmss that exist in the calendar
LocalTimes ==
    { t \in {0, 24, 68, 69, 99} \X {1, 2, 3, 6, 12} \X {1, 19, 28, 29, 31}
            \X {0, 12, 23} \X {0, 59} \X {0, 59} :
        ValidDate(FullYear(t[1]), t[2], t[3]) }

\* zones: the sign character '+' or '-', hours and minutes
Zones == {43, 45} \X {0, 2, 23} \X {0, 30, 59}

InitTime ==
    /\ \E t \in LocalTimes, z \in Zones :
          /\ given = [local |-> t, zone |-> z]
          /\ raw_data = <<BcdByte(t[1]), BcdByte(t[2]), BcdByte(t[3]),
                          BcdByte(t[4]), BcdByte(t[5]), BcdByte(t[6]),
                          z[1], BcdByte(z[2]), BcdByte(z[3])>>
    /\ fn_called = "ready"
    /\ fn_result = <<>>
    /\ MscIdle
    /\ ConvIdle
    /\ SgsnIdle

\* one call parse_3gpp_timestamp(raw_data)
Parse3gppTimestampCall ==
    /\ fn_called = "ready"
    /\ fn_called' = "parse_3gpp_timestamp"
    /\ fn_result' = Parse3gppTimestamp(raw_data)
    /\ UNCHANGED <<raw_data, given>>
    /\ UNCHANGED nonFnVars

NextTime == Parse3gppTimestampCall

SpecTime == InitTime /\ [][NextTime]_vars

(***************************************************************************)
(* Properties of the timestamp with a zone                                 *)
(***************************************************************************)

\* the number of the day y-m-d counted from 0001-01-01 as day 1
OrdinalDay(y, m, d) ==
    LET before_year  == (y - 1) * 365 + (y - 1) \div 4 - (y - 1) \div 100
                            + (y - 1) \div 400
        days(k)      == DaysInMonth(y, k)
        before_month == days(1) * (IF m > 1 THEN 1 ELSE 0)
                        + days(2) * (IF m > 2 THEN 1 ELSE 0)
                        + days(3) * (IF m > 3 THEN 1 ELSE 0)
                        + days(4) * (IF m > 4 THEN 1 ELSE 0)
                        + days(5) * (IF m > 5 THEN 1 ELSE 0)
                        + days(6) * (IF m > 6 THEN 1 ELSE 0)
                        + days(7) * (IF m > 7 THEN 1 ELSE 0)
                        + days(8) * (IF m > 8 THEN 1 ELSE 0)
                        + days(9) * (IF m > 9 THEN 1 ELSE 0)
                        + days(10) * (IF m > 10 THEN 1 ELSE 0)
                        + days(11) * (IF m > 11 THEN 1 ELSE 0)
    IN  before_year + before_month + d

\* the minute of the time <<y, m, d, hh, mm, ss>> counted from 0001-01-01
MinuteOf(t) == (OrdinalDay(t[1], t[2], t[3]) * 24 + t[4]) * 60 + t[5]

\* <<y, m, d, hh, mm, ss>> is a time of the calendar
ValidTime(t) ==
    /\ ValidDate(t[1], t[2], t[3])
    /\ t[4] \in 0..23 /\ t[5] \in 0..59 /\ t[6] \in 0..59

\* minutes to add to the local time: '+' takes the offset away, '-' adds it
ZoneShift(z) == (IF z[1] = 43 THEN -1 ELSE 1) * (z[2] * 60 + z[3])

\* C18 (3GPP timestamp with offset): for a valid local time YYMMDDhhmmss, a
\* sign '+' or '-' and an offset of hours (up to 23) and minutes (up to 59),
\* parse_3gpp_timestamp returns the UTC time that is the local time with the
\* signed offset removed.
C18_OffsetRemoved ==
    fn_called = "parse_3gpp_timestamp" =>
        /\ fn_result.some
        /\ ValidTime(fn_result.val)
        /\ MinuteOf(fn_result.val)
             = MinuteOf(<<FullYear(given.local[1])>> \o Tail(given.local))
                 + ZoneShift(given.zone)
        /\ fn_result.val[6] = given.local[6]

\* 240619120000+0200 was parsed to 2024-06-19T10:00:00+00:00
C18_TwoHoursEast ==
    /\ fn_called = "parse_3gpp_timestamp"
    /\ raw_data = <<36, 6, 25, 18, 0, 0, 43, 2, 0>>
    /\ fn_result = Some(<<2024, 6, 19, 10, 0, 0>>)

(***************************************************************************)
(* Properties of the record-stream loop of decode_msc_file                 *)
(***************************************************************************)

\* every element of the stream fails with one and the same recoverable
\* category, and there is at least one element
AllFailAlike ==
    LET es == WalkElements(raw_data) IN
    /\ IsElementStream(raw_data)
    /\ Len(es) >= 1
    /\ IsGroupCallError(MscSchemaDecode(es[1]))
    /\ \A i \in DOMAIN es : MscSchemaDecode(es[i]) = MscSchemaDecode(es[1])

\* C19 (wrong-record-type signal): when every element of the file fails with
\* the same recoverable category, the record-stream path surfaces the
\* file-level warning of lines 163-168.
C19_WrongTypeSurfaced ==
    (StreamDone /\ AllFailAlike) => wrong_type_reported

\* the bytes an element spans, read off its header: tag, length octet, the
\* length octets of the long form, content
SpanOfHeader(data) ==
    IF At(data, 1) < 128 THEN 2 + At(data, 1)
    ELSE 2 + (At(data, 1) % 128)
           + IntFromBytes(Slice(data, 2, 2 + (At(data, 1) % 128)))

\* C20 (failure never stalls the stream): every iteration of the loop either
\* ends the loop or removes the current element, at least 2 bytes, from the
\* front of the remaining data as its length field says (all that remains, if
\* the element is cut short by the end of the buffer); and the function comes
\* to its end.
C20_NeverStalls ==
    /\ [][(msc_pc = "loop" /\ remaining_data # <<>>) =>
             \/ msc_pc' = "summary" /\ remaining_data' = remaining_data
             \/ /\ msc_pc' = "loop"
                /\ Len(remaining_data') + 2 <= Len(remaining_data)
                /\ Len(remaining_data) - Len(remaining_data')
                     = Min(SpanOfHeader(remaining_data), Len(remaining_data))
                /\ remaining_data'
                     = SliceFrom(remaining_data, SpanOfHeader(remaining_data))]_vars
    /\ <>(msc_pc = "done")

\* a stream whose three elements took the three kinds of iteration (the
\* decoder succeeded, a recoverable skip, another skip) was walked to its end
C20_ThreeKindsWalked ==
    /\ StreamDone
    /\ raw_data = <<160, 1, 7, 162, 129, 1, 4, 163, 0>>
    /\ Len(iter_log) = 3
    /\ iter_log[1].kind = "lost" /\ iter_log[1].len = 3
    /\ iter_log[2].kind = "groupCallRecord" /\ iter_log[2].len = 4
    /\ iter_log[3].kind = "other" /\ iter_log[3].len = 2
    /\ remaining_data = <<>>

(***************************************************************************)
(* Properties of the splitting in decode_raw_sgsn                          *)
(***************************************************************************)

\* the first element of data has the length octet 0x80
TopLevelIndefinite(data) == Len(data) >= 2 /\ At(data, 1) = 128

\* C21 (normalization precedes splitting): once decode_raw_sgsn has split a
\* buffer whose top-level element uses indefinite length, raw_records holds
\* the elements of the normalized buffer, at least one, and the element
\* iterator has not rejected the buffer.
C21_NormalizedBeforeSplit ==
    (sg_pc # "start" /\ TopLevelIndefinite(raw_data)
       /\ ConvertIndefiniteToDefiniteLength(raw_data).exc = "none") =>
        /\ raw_records
             = IterBerElements(ConvertIndefiniteToDefiniteLength(raw_data).out).elems
        /\ raw_records # <<>>

(***************************************************************************)
(* DirectBinaryParser._find_context_tag applied to one buffer              *)
(***************************************************************************)
MaxFindLen == 4   \* length of a buffer

\* a tag, length octets of both forms, and octets that spell the content
\* lengths 0, 2, 9999 (0x27 0x0F) and 10000 (0x27 0x10)
FindBytes == {155, 0, 2, 15, 16, 39, 129, 130}

InitFind ==
    /\ raw_data \in SeqsUpTo(FindBytes, MaxFindLen)
    /\ given \in {[tag |-> 155], [tag |-> 130]}
    /\ fn_called = "ready"
    /\ fn_result = <<>>
    /\ MscIdle
    /\ ConvIdle
    /\ SgsnIdle

\* one call _find_context_tag(raw_data, tag)
FindContextTagCall ==
    /\ fn_called = "ready"
    /\ fn_called' = "_find_context_tag"
    /\ fn_result' = FindContextTag(raw_data, given.tag)
    /\ UNCHANGED <<raw_data, given>>
    /\ UNCHANGED nonFnVars

NextFind == FindContextTagCall

SpecFind == InitFind /\ [][NextFind]_vars

(***************************************************************************)
(* Properties of _find_context_tag                                         *)
(***************************************************************************)

\* the octets of the length field at offset o after its first octet
LongOctets(o) == IF At(raw_data, o + 1) < 128 THEN 0 ELSE At(raw_data, o + 1) % 128

\* the content length the length field at offset o declares
DeclaredLength(o) ==
    IF At(raw_data, o + 1) < 128 THEN At(raw_data, o + 1)
    ELSE IntFromBytes(Slice(raw_data, o + 2, o + 2 + LongOctets(o)))

\* C22 (scanner plausibility check): every accepted offset has a length field
\* whose declared content fits in the rest of the buffer and whose content
\* length L satisfies 0 < L < 10000.
C22_PlausibleAndFits ==
    fn_called = "_find_context_tag" =>
        \A k \in DOMAIN fn_result :
            LET o == fn_result[k] IN
            /\ o + 2 + LongOctets(o) + DeclaredLength(o) <= Len(raw_data)
            /\ 0 < DeclaredLength(o) /\ DeclaredLength(o) < 10000

\* C22 as the code has it: every accepted offset holds the tag and a length
\* field that lies inside the buffer, of at most 4 further octets, whose
\* content length L satisfies 0 < L < 10000; the offsets are ascending.
C22_PlausibleLength ==
    fn_called = "_find_context_tag" =>
        /\ \A k \in DOMAIN fn_result :
              LET o == fn_result[k] IN
              /\ 0 <= o /\ o + 1 < Len(raw_data)
              /\ At(raw_data, o) = given.tag
              /\ LongOctets(o) <= 4
              /\ o + 2 + LongOctets(o) <= Len(raw_data)
              /\ 0 < DeclaredLength(o) /\ DeclaredLength(o) < 10000
        /\ \A k \in 1..(Len(fn_result) - 1) : fn_result[k] < fn_result[k + 1]

\* an offset was accepted whose long-form length declares 9999 bytes of
\* content in a buffer of 4 bytes
C22_AcceptedBeyondBuffer ==
    /\ fn_called = "_find_context_tag"
    /\ raw_data = <<155, 130, 39, 15>>
    /\ given.tag = 155
    /\ fn_result = <<0>>

(***************************************************************************)
(* DirectBinaryParser._extract_from_context_21 applied to one element      *)
(***************************************************************************)
MaxSlots == 3   \* INTEGER fields in the element

\* the contents of an INTEGER: 0, 7, 255, 2^31 - 1, 2^31, 2^32
IntegerContents ==
    { <<0>>, <<7>>, <<255>>, <<127, 255, 255, 255>>, <<128, 0, 0, 0>>,
      <<1, 0, 0, 0, 0>> }

\* where an INTEGER stands: at the top level of the content (0), or alone in
\* a child with a context-specific tag
Places == {0, 129, 160}

IntegerField(content) == <<2, Len(content)>> \o content

SlotBytes(slot) ==
    IF slot.place = 0 THEN IntegerField(slot.content)
    ELSE <<slot.place, Len(IntegerField(slot.content))>> \o IntegerField(slot.content)

NodeId == <<4, 2, 171, 205>>

\* a context-21 element holding an optional node id and the slots, followed
\* by an OCTET STRING so that 10 bytes are there
Context21Element(node, slots) ==
    LET content == node \o Flatten([i \in DOMAIN slots |-> SlotBytes(slots[i])])
    IN  <<149, Len(content)>> \o content \o <<4, 6, 17, 17, 17, 17, 17, 17>>

\* elements in which a child holds two INTEGERs: each is the content of the
\* first child, the content of the second child, and an INTEGER after them
TwoInChild ==
    { [first |-> <<IntegerField(a), IntegerField(b)>>,
       second |-> <<IntegerField(c)>>, last |-> d] :
        a \in {<<0>>, <<7>>}, b \in {<<255>>, <<128, 0, 0, 0>>},
        c \in {<<0>>, <<0, 9>>}, d \in {<<7>>, <<1, 0, 0, 0, 0>>} }

InitSeq ==
    /\ \/ \E node \in {<<>>, NodeId},
             slots \in SeqsUpTo([place : Places, content : IntegerContents], MaxSlots) :
            /\ given = [node |-> node,
                        candidates |-> [i \in DOMAIN slots |-> slots[i].content]]
            /\ raw_data = Context21Element(node, slots)
       \/ \E t \in TwoInChild :
            /\ given = [node |-> <<>>,
                        candidates |->
                            [i \in 1..2 |-> SubSeq(t.first[i], 3, Len(t.first[i]))]
                            \o <<SubSeq(t.second[1], 3, Len(t.second[1])), t.last>>]
            /\ raw_data = <<149, Len(Flatten(t.first)) + Len(Flatten(t.second))
                                   + Len(t.last) + 6>>
                          \o <<160, Len(Flatten(t.first))>> \o Flatten(t.first)
                          \o <<130, Len(Flatten(t.second))>> \o Flatten(t.second)
                          \o IntegerField(t.last)
                          \o <<4, 6, 17, 17, 17, 17, 17, 17>>
    /\ fn_called = "ready"
    /\ fn_result = <<>>
    /\ MscIdle
    /\ ConvIdle
    /\ SgsnIdle

\* one call _extract_from_context_21(raw_data, 0)
ExtractFromContext21Call ==
    /\ fn_called = "ready"
    /\ fn_called' = "_extract_from_context_21"
    /\ fn_result' = ExtractFromContext21(raw_data, 0)
    /\ UNCHANGED <<raw_data, given>>
    /\ UNCHANGED nonFnVars

NextSeq == ExtractFromContext21Call

SpecSeq == InitSeq /\ [][NextSeq]_vars

(***************************************************************************)
(* Properties of the sequence number                                       *)
(***************************************************************************)

\* the content of an INTEGER without its leading zero octets
RECURSIVE Significant(_)
Significant(content) ==
    IF content # <<>> /\ content[1] = 0 THEN Significant(Tail(content)) ELSE content

\* the unsigned value of the content lies in 1 .. 2^31 - 1
InBound(content) ==
    LET sig == Significant(content) IN
    /\ sig # <<>>
    /\ Len(sig) <= 4
    /\ Len(sig) = 4 => sig[1] < 128

\* the candidates, in scan order, that lie within the bound
BoundedCandidates == SelectSeq(given.candidates, InBound)

SequenceKeys == {"localSequenceNumber", "recordSequenceNumber"}

\* C25 (sequence-number bound and first-candidate rule): the sequence number
\* emitted for a context-21 element is that of the first INTEGER in scan
\* order, at the top level or in a context-specific child, whose value v
\* satisfies 0 < v < 2^31, under both keys; when no INTEGER satisfies the
\* bound, no sequence number is emitted.
C25_FirstBoundedCandidate ==
    fn_called = "_extract_from_context_21" =>
        IF BoundedCandidates = <<>>
        THEN ~fn_result.some \/ DOMAIN fn_result.val \cap SequenceKeys = {}
        ELSE /\ fn_result.some
             /\ SequenceKeys \subseteq DOMAIN fn_result.val
             /\ \A k \in SequenceKeys :
                   /\ fn_result.val[k] = IntFromBytes(Significant(BoundedCandidates[1]))
                   /\ 0 < fn_result.val[k] /\ fn_result.val[k] <= 2147483647

\* 2^31 was passed over, 2^31 - 1 in a child was taken, and the 7 after it
\* did not replace it
C25_LargestTaken ==
    /\ fn_called = "_extract_from_context_21"
    /\ given.candidates = << <<128, 0, 0, 0>>, <<127, 255, 255, 255>>, <<7>> >>
    /\ raw_data = <<149, 17, 2, 4, 128, 0, 0, 0,
                    160, 6, 2, 4, 127, 255, 255, 255, 2, 1, 7,
                    4, 6, 17, 17, 17, 17, 17, 17>>
    /\ fn_result.some
    /\ fn_result.val["recordSequenceNumber"] = 2147483647

(***************************************************************************)
(* The Unix-epoch strategy of _try_multiple_timestamp_formats applied to   *)
(* one integer of 4 or 8 bytes                                             *)
(***************************************************************************)
MaxAway == 15   \* distance of an input from an end of the range, in seconds

\* the 4 bytes of t, big-endian
Bytes4(t) == <<t \div 16777216, (t \div 65536) % 256, (t \div 256) % 256, t % 256>>

EpochInputs ==
    { 946684800 + k : k \in (0 - MaxAway)..MaxAway }
    \cup { 1893456000 + k : k \in (0 - MaxAway)..MaxAway }

InitEpoch ==
    /\ \E t \in EpochInputs, wide \in BOOLEAN :
          /\ given = [t |-> t]
          /\ raw_data = IF wide THEN <<0, 0, 0, 0>> \o Bytes4(t) ELSE Bytes4(t)
    /\ fn_called = "ready"
    /\ fn_result = <<>>
    /\ MscIdle
    /\ ConvIdle
    /\ SgsnIdle

\* lines 114-127 on raw_data
TimestampFormat2Call ==
    /\ fn_called = "ready"
    /\ fn_called' = "format2"
    /\ fn_result' = TimestampFormat2(raw_data)
    /\ UNCHANGED <<raw_data, given>>
    /\ UNCHANGED nonFnVars

NextEpoch == TimestampFormat2Call

SpecEpoch == InitEpoch /\ [][NextEpoch]_vars

\* C26 (epoch range check): the Unix-epoch strategy accepts an integer t only
\* if 946684800 <= t < 1893456000.
C26_HalfOpenRange ==
    (fn_called = "format2" /\ fn_result.some) =>
        (946684800 <= given.t /\ given.t < 1893456000)

(***************************************************************************)
(* Properties of the TBCD decoders taken together                          *)
(***************************************************************************)

\* C27 (the SGSN/TAP decoders stop at any nibble above 9): the output of
\* utils.decode_tbcd and of tap_compiler.decode_tbcd consists of the
\* characters '0'..'9' only and has at most two characters for each input
\* byte.
C27_DigitsOnly ==
    fn_called \in {"utils.decode_tbcd", "tap_compiler.decode_tbcd"} =>
        /\ \A k \in DOMAIN fn_result : fn_result[k] \in 0..9
        /\ Len(fn_result) <= 2 * Len(raw_data)

\* C30 (all TBCD decoders agree): the scanner's _decode_tbcd, the field
\* normalizer's _tbcd_to_digits and the TAP decode_tbcd return the digit
\* string that utils.decode_tbcd returns for the same bytes.
C30_DecodersAgree ==
    /\ fn_called \in {"tap_compiler.decode_tbcd", "_tbcd_to_digits"} =>
          fn_result = DecodeTbcd(raw_data)
    /\ fn_called = "DirectBinaryParser._decode_tbcd" =>
          (fn_result.some /\ fn_result.val = DecodeTbcd(raw_data))

(***************************************************************************)
(* decode_raw_sgsn: the offsets the records are correlated by              *)
(***************************************************************************)

\* C28 (the correlation key is the true element offset): the offset the k-th
\* record is correlated by is the position of the buffer at which the k-th
\* element iter_ber_elements yielded begins; the elements start at offset 0,
\* each begins where the one before it ends, and together they are a prefix
\* of the buffer.
C28_TrueElementOffset ==
    sg_pc \in {"loop", "done"} =>
        LET spans == IterBerSpans(raw_data) IN
        /\ Len(raw_records) = Len(spans)
        /\ \A k \in DOMAIN raw_records :
              raw_records[k] = Slice(raw_data, spans[k].start, spans[k].end)
        /\ \A k \in DOMAIN decoded_log : decoded_log[k].prev_offset = spans[k].start
        /\ spans # <<>> => spans[1].start = 0
        /\ \A k \in DOMAIN spans : k > 1 => spans[k].start = spans[k - 1].end
        /\ Flatten(raw_records) = SubSeq(raw_data, 1, Len(Flatten(raw_records)))

\* Two equal records decoded, the second one correlated by offset 19, where
\* its element begins.
C28_SecondAtNineteen ==
    /\ raw_data = SgsnRecord(<<MsisdnA, Lac>>) \o SgsnRecord(<<MsisdnA, Lac>>)
    /\ Len(decoded_log) = 2
    /\ decoded_log[2].prev_offset = 19
    /\ raw_records[2] = SgsnRecord(<<MsisdnA, Lac>>)

(***************************************************************************)
(* decode_raw_sgsn: the index of merge_ctx_index against the scan of the   *)
(* scanner's lists                                                         *)
(***************************************************************************)

\* the distances the bisect range is compared at
Distances == {0, 4, 1000, DefaultMaxDistance, 1025}

\* the offsets records are correlated by: those of the elements decoded so
\* far and that of the next one
RecordOffsets == { decoded_log[k].prev_offset : k \in DOMAIN decoded_log } \cup {sg_offset}

\* the positions (from 0) of the array the two bisect calls of lines 81-82
\* enclose
BisectRangeOf(offsets, o, d) ==
    { i \in 0..(Len(offsets) - 1) :
        /\ BisectLeft(offsets, o - d, 0, Len(offsets)) <= i
        /\ i < BisectRight(offsets, o + d, 0, Len(offsets)) }

\* the record merge_ctx_index leaves when it has no index and scans the lists
\* of missing_data (lines 59-76)
MergedByScanning(k) ==
    MergeAll(<<>>, missing_data, decoded_log[k].prev_offset, decoded_log[k].mapped_record)

\* C29 (the indexed merge equals the linear scan): every offsets array of the
\* index is sorted ascending; for every record offset o and distance d the
\* bisect range holds exactly the hits with |offset - o| <= d; and every
\* record is left by the merges through the index as the scan of the
\* scanner's lists would leave it.
C29_IndexEqualsScan ==
    sg_pc # "start" =>
        /\ \A ctx_name \in DOMAIN indices :
              LET offsets == indices[ctx_name].offsets IN
              /\ \A i, j \in DOMAIN offsets : i < j => offsets[i] <= offsets[j]
              /\ \A o \in RecordOffsets, d \in Distances :
                    BisectRangeOf(offsets, o, d)
                        = { i \in 0..(Len(offsets) - 1) : Abs(At(offsets, i) - o) <= d }
        /\ \A k \in DOMAIN records : records[k] = MergedByScanning(k)

\* A first record with two context_27 hits in the file, the nearer one within
\* 1024 bytes of its start and merged, the other one beyond and left out.
C29_OneHitOfTwoInRange ==
    /\ sg_pc = "done"
    /\ LET offsets == indices["context_27_found"].offsets
           o == decoded_log[1].prev_offset
       IN  /\ Len(offsets) = 2
           /\ BisectRangeOf(offsets, o, DefaultMaxDistance) = {0}
           /\ Abs(offsets[2] - o) > DefaultMaxDistance
    /\ decoded_log[1].mapped_record = MapSgsnRecord("sgsnPDPRecord", EmptyDict, DefaultFilename)
    /\ records[1]["servedMSISDN"] = <<1, 2, 3, 4, 5>>

====
